---- MODULE Spec2Model ----
(***************************************************************************)
(* Verification model of the openzalo channel adapter: the outbound dedupe *)
(* ledger, the inbound debouncer, the subagent conversation-binding store, *)
(* its lifecycle hooks, the persist queue and the advisory store lock.     *)
(* Strings are sequences of one-character strings so that trimming,        *)
(* prefix stripping and case folding are computed, not assumed.            *)
(***************************************************************************)
EXTENDS Integers, Sequences, FiniteSets, TLC

\* ---------------------------------------------------------------- bounds
MaxTime == 4
MaxStoreOps == 3
MaxStoreTime == 3
MaxTickets == 3
MaxEntries == 4
MaxHookEvents == 3
MaxHookTime == 3
NumLockCallers == 2
MaxRunTime == 7
MaxProbeOps == 3
MaxProbeTime == 4
MaxLockTime == 4

\* ------------------------------------------------------- string helpers
IsSpace(c) == c = " "

IsDigit(c) == c \in {"0", "1", "2", "3", "4", "5", "6", "7", "8", "9"}

LowerChar(c) ==
  CASE c = "G" -> "g"
    [] c = "U" -> "u"
    [] c = "D" -> "d"
    [] c = "M" -> "m"
    [] c = "W" -> "w"
    [] c = "O" -> "o"
    [] c = "Z" -> "z"
    [] c = "L" -> "l"
    [] c = "A" -> "a"
    [] OTHER -> c

ToLowerCase(s) == [i \in 1..Len(s) |-> LowerChar(s[i])]

Drop(s, n) == SubSeq(s, n + 1, Len(s))

RECURSIVE TrimStart(_)
TrimStart(s) ==
  IF s # <<>> /\ IsSpace(Head(s)) THEN TrimStart(Tail(s)) ELSE s

RECURSIVE TrimEnd(_)
TrimEnd(s) ==
  IF s # <<>> /\ IsSpace(s[Len(s)]) THEN TrimEnd(SubSeq(s, 1, Len(s) - 1)) ELSE s

Trim(s) == TrimEnd(TrimStart(s))

\* s starts with the literal p, compared case-insensitively (regex /^p/i)
StartsWithCI(s, p) ==
  /\ Len(s) >= Len(p)
  /\ ToLowerCase(SubSeq(s, 1, Len(p))) = p

\* s.replace(/^(p1|p2|...)/i, "") for an ordered alternation of literals
RECURSIVE StripFirstPrefixCI(_, _)
StripFirstPrefixCI(s, prefixes) ==
  IF prefixes = <<>> THEN s
  ELSE IF StartsWithCI(s, Head(prefixes)) THEN Drop(s, Len(Head(prefixes)))
  ELSE StripFirstPrefixCI(s, Tail(prefixes))

\* ------------------------------------------------- target normalization
PrefixOpenzalo == <<"o", "p", "e", "n", "z", "a", "l", "o", ":">>
PrefixOzl == <<"o", "z", "l", ":">>
PrefixZlu == <<"z", "l", "u", ":">>
PrefixThread == <<"t", "h", "r", "e", "a", "d", ":">>
PrefixGroup == <<"g", "r", "o", "u", "p", ":">>
PrefixUser == <<"u", "s", "e", "r", ":">>
PrefixDm == <<"d", "m", ":">>
PrefixU == <<"u", ":">>
PrefixG == <<"g", ":">>

stripOpenzaloPrefix(value) ==
  Trim(StripFirstPrefixCI(Trim(value), <<PrefixOpenzalo, PrefixOzl, PrefixZlu>>))

\* number of digits that directly precede position n (inclusive) of s
RECURSIVE DigitsBefore(_, _)
DigitsBefore(s, n) ==
  IF n >= 1 /\ IsDigit(s[n]) THEN 1 + DigitsBefore(s, n - 1) ELSE 0

\* /\((\d{3,})\)\s*$/ on an already trimmed string: the captured digits, or <<>>
LabeledId(s) ==
  IF Len(s) >= 5 /\ s[Len(s)] = ")"
  THEN LET d == DigitsBefore(s, Len(s) - 1)
       IN IF d >= 3 /\ Len(s) - 1 - d >= 1 /\ s[Len(s) - 1 - d] = "("
          THEN SubSeq(s, Len(s) - d, Len(s) - 1)
          ELSE <<>>
  ELSE <<>>

\* the id that follows a matched prefix, under its canonical prefix
PrefixedId(prefix, id) == IF id = <<>> THEN <<>> ELSE prefix \o id

\* normalizeOpenzaloMessagingTarget once the channel and thread: prefixes are gone
NormalizeStripped(stripped, lowered) ==
  IF stripped = <<>> THEN <<>>
  ELSE IF Len(stripped) >= 3 /\ lowered[1] \in {"g", "u"} /\ stripped[2] = "-"
  THEN PrefixedId(IF lowered[1] = "g" THEN PrefixGroup ELSE PrefixUser,
                  Trim(Drop(stripped, 2)))
  ELSE IF StartsWithCI(stripped, PrefixG)
  THEN PrefixedId(PrefixGroup, Trim(Drop(stripped, 2)))
  ELSE IF StartsWithCI(stripped, PrefixU) \/ StartsWithCI(stripped, PrefixDm)
  THEN PrefixedId(PrefixUser, Trim(StripFirstPrefixCI(stripped, <<PrefixU, PrefixDm>>)))
  ELSE IF StartsWithCI(lowered, PrefixGroup) \/ StartsWithCI(lowered, PrefixUser)
  THEN PrefixedId(IF StartsWithCI(lowered, PrefixGroup) THEN PrefixGroup ELSE PrefixUser,
                  Trim(StripFirstPrefixCI(stripped, <<PrefixGroup, PrefixUser>>)))
  ELSE IF LabeledId(stripped) # <<>> THEN LabeledId(stripped)
  ELSE stripped

StripThreadPrefix(value) == Trim(StripFirstPrefixCI(value, <<PrefixThread>>))

NormalizeWith(stripped) == NormalizeStripped(stripped, ToLowerCase(stripped))

normalizeOpenzaloMessagingTarget(input) ==
  NormalizeWith(StripThreadPrefix(stripOpenzaloPrefix(input)))

BadTarget == [ok |-> FALSE, threadId |-> <<>>, isGroup |-> FALSE]

ParsedThread(threadId, isGroup) ==
  IF threadId = <<>> THEN BadTarget
  ELSE [ok |-> TRUE, threadId |-> threadId, isGroup |-> isGroup]

\* parseOpenzaloTarget on the normalized target
ParseNormalized(normalized) ==
  IF normalized = <<>> THEN BadTarget
  ELSE IF StartsWithCI(normalized, PrefixGroup)
  THEN ParsedThread(Trim(Drop(normalized, Len(PrefixGroup))), TRUE)
  ELSE IF StartsWithCI(normalized, PrefixDm) \/ StartsWithCI(normalized, PrefixUser)
  THEN ParsedThread(Trim(StripFirstPrefixCI(normalized, <<PrefixDm, PrefixUser>>)), FALSE)
  ELSE [ok |-> TRUE, threadId |-> normalized, isGroup |-> FALSE]

\* ok = FALSE stands for the thrown Error
parseOpenzaloTarget(raw) == ParseNormalized(normalizeOpenzaloMessagingTarget(raw))

formatOpenzaloOutboundTarget(threadId, isGroup) ==
  (IF isGroup THEN PrefixGroup ELSE PrefixUser) \o threadId

NoTarget == [ok |-> FALSE, to |-> <<>>, threadId |-> <<>>, isGroup |-> FALSE]

\* the raw target is stored as typed, without its canonical form
TargetOfParsedUncanonical(value, parsed) ==
  IF value = <<>> \/ ~parsed.ok THEN NoTarget
  ELSE [ok |-> TRUE, to |-> value,
        threadId |-> parsed.threadId, isGroup |-> parsed.isGroup]

TargetOfParsed(value, parsed) ==
  IF value = <<>> \/ ~parsed.ok THEN NoTarget
  ELSE [ok |-> TRUE, to |-> formatOpenzaloOutboundTarget(parsed.threadId, parsed.isGroup),
        threadId |-> parsed.threadId, isGroup |-> parsed.isGroup]

TargetOfValue(value) == TargetOfParsed(value, parseOpenzaloTarget(value))

resolveTargetFromTo(raw) == TargetOfValue(Trim(raw))

\* --------------------------------------------------- account normalization
DEFAULT_ACCOUNT_ID == <<"d", "e", "f", "a", "u", "l", "t">>

BLOCKED_OBJECT_KEYS ==
  { <<"_", "_", "p", "r", "o", "t", "o", "_", "_">>,
    <<"p", "r", "o", "t", "o", "t", "y", "p", "e">>,
    <<"c", "o", "n", "s", "t", "r", "u", "c", "t", "o", "r">> }

IsLowerAlnum(c) ==
  \/ IsDigit(c)
  \/ c \in {"a", "b", "c", "d", "e", "f", "g", "h", "i", "j", "k", "l", "m", "n",
            "o", "p", "q", "r", "s", "t", "u", "v", "w", "x", "y", "z"}

\* [a-z0-9_-] under the i flag
IsIdChar(c) == IsLowerAlnum(LowerChar(c)) \/ c \in {"_", "-"}

\* VALID_ID_RE = /^[a-z0-9][a-z0-9_-]{0,63}$/i
MatchesValidId(s) ==
  /\ Len(s) >= 1
  /\ Len(s) <= 64
  /\ IsLowerAlnum(LowerChar(s[1]))
  /\ \A i \in 1..Len(s) : IsIdChar(s[i])

\* replace(/[^a-z0-9_-]+/g, "-") on an already lower-cased string
RECURSIVE ReplaceInvalidRuns(_)
ReplaceInvalidRuns(s) ==
  IF s = <<>> THEN <<>>
  ELSE IF IsIdChar(Head(s)) /\ LowerChar(Head(s)) = Head(s)
  THEN <<Head(s)>> \o ReplaceInvalidRuns(Tail(s))
  ELSE LET rest == ReplaceInvalidRuns(Tail(s))
       IN IF Len(s) >= 2 /\ ~(IsIdChar(s[2]) /\ LowerChar(s[2]) = s[2])
          THEN rest
          ELSE <<"-">> \o rest

RECURSIVE StripLeadingDashes(_)
StripLeadingDashes(s) ==
  IF s # <<>> /\ Head(s) = "-" THEN StripLeadingDashes(Tail(s)) ELSE s

RECURSIVE StripTrailingDashes(_)
StripTrailingDashes(s) ==
  IF s # <<>> /\ s[Len(s)] = "-"
  THEN StripTrailingDashes(SubSeq(s, 1, Len(s) - 1)) ELSE s

Slice64(s) == SubSeq(s, 1, IF Len(s) < 64 THEN Len(s) ELSE 64)

canonicalizeAccountId(value) ==
  IF MatchesValidId(value) THEN ToLowerCase(value)
  ELSE Slice64(StripTrailingDashes(StripLeadingDashes(
                 ReplaceInvalidRuns(ToLowerCase(value)))))

UnlessBlocked(canonical) ==
  IF canonical = <<>> \/ canonical \in BLOCKED_OBJECT_KEYS THEN <<>> ELSE canonical

\* <<>> stands for undefined
normalizeCanonicalAccountId(value) == UnlessBlocked(canonicalizeAccountId(value))

OrDefault(canonical) == IF canonical = <<>> THEN DEFAULT_ACCOUNT_ID ELSE canonical

\* an undefined accountId is the empty string here: both take the default
normalizeAccountId(value) ==
  IF Trim(value) = <<>> THEN DEFAULT_ACCOUNT_ID
  ELSE OrDefault(normalizeCanonicalAccountId(Trim(value)))

toConversationKey(accountId, to) == accountId \o <<":">> \o to

\* ------------------------------------------------ subagent binding store
\* numbers that may be absent: ttlMs, expiresAt, boundAt of a raw record
Undef == [def |-> FALSE, val |-> 0]
Num(v) == [def |-> TRUE, val |-> v]

\* the result is 0 for undefined; values are whole numbers already
toPositiveInteger(value) ==
  IF ~value.def \/ value.val <= 0 THEN 0
  ELSE IF value.val < 1 THEN 1 ELSE value.val

toTimestamp(value) ==
  IF ~value.def THEN 0
  ELSE IF value.val < 1 THEN 1 ELSE value.val

toOptionalString(value) == Trim(value)

NoRecord ==
  [accountId |-> <<>>, to |-> <<>>, threadId |-> <<>>, isGroup |-> FALSE,
   childSessionKey |-> <<>>, agentId |-> <<>>,
   boundAt |-> 0, lastTouchedAt |-> 0, ttlMs |-> 0, expiresAt |-> 0]

KeyOf(record) == toConversationKey(record.accountId, record.to)

\* Map and Set of the runtime, kept in insertion order
MapHas(fwd, key) == \E i \in 1..Len(fwd) : KeyOf(fwd[i]) = key

MapGet(fwd, key) ==
  IF MapHas(fwd, key)
  THEN fwd[CHOOSE i \in 1..Len(fwd) : KeyOf(fwd[i]) = key]
  ELSE NoRecord

MapDelete(fwd, key) ==
  LET Keep(r) == KeyOf(r) # key IN SelectSeq(fwd, Keep)

MapSet(fwd, key, record) ==
  IF MapHas(fwd, key)
  THEN [i \in 1..Len(fwd) |-> IF KeyOf(fwd[i]) = key THEN record ELSE fwd[i]]
  ELSE Append(fwd, record)

SetHas(set, x) == \E i \in 1..Len(set) : set[i] = x

SetAdd(set, x) == IF SetHas(set, x) THEN set ELSE Append(set, x)

SetDelete(set, x) ==
  LET Keep(y) == y # x IN SelectSeq(set, Keep)

isExpiredStrict(record, at) ==
  IF record.expiresAt = 0 \/ record.expiresAt <= 0 THEN FALSE
  ELSE record.expiresAt < at

isExpired(record, at) ==
  IF record.expiresAt = 0 \/ record.expiresAt <= 0 THEN FALSE
  ELSE record.expiresAt <= at

\* a store is [fwd |-> bindingsByConversation, rev |-> conversationKeysBySession,
\* linked |-> the session keys that have an entry in conversationKeysBySession];
\* rev[s] of a session without an entry is the empty list
SessionEntries(st, sessionKey) ==
  IF sessionKey \in st.linked THEN st.rev[sessionKey] ELSE <<>>

\* the emptied key set stays in the reverse map
unlinkSessionConversationKeepEmpty(st, sessionKey, conversationKey) ==
  IF sessionKey \notin st.linked THEN st
  ELSE [st EXCEPT !.rev[sessionKey] = SetDelete(@, conversationKey)]

unlinkSessionConversation(st, sessionKey, conversationKey) ==
  IF sessionKey \notin st.linked THEN st
  ELSE [st EXCEPT !.rev[sessionKey] = SetDelete(@, conversationKey),
                  !.linked = IF SetDelete(st.rev[sessionKey], conversationKey) = <<>>
                             THEN @ \ {sessionKey} ELSE @]

removeBindingByConversationKey(st, conversationKey) ==
  LET existing == MapGet(st.fwd, conversationKey)
  IN IF existing = NoRecord THEN st
     ELSE unlinkSessionConversation(
            [st EXCEPT !.fwd = MapDelete(@, conversationKey)],
            existing.childSessionKey, conversationKey)

setBindingRecordNoUnlink(st, record) ==
  LET conversationKey == KeyOf(record)
  IN [fwd |-> MapSet(st.fwd, conversationKey, record),
      rev |-> [st.rev EXCEPT ![record.childSessionKey] =
                 SetAdd(SessionEntries(st, record.childSessionKey), conversationKey)],
      linked |-> st.linked \cup {record.childSessionKey}]

setBindingRecord(st, record) ==
  LET conversationKey == KeyOf(record)
      removed == removeBindingByConversationKey(st, conversationKey)
  IN [fwd |-> MapSet(removed.fwd, conversationKey, record),
      rev |-> [removed.rev EXCEPT ![record.childSessionKey] =
                 SetAdd(SessionEntries(removed, record.childSessionKey), conversationKey)],
      linked |-> removed.linked \cup {record.childSessionKey}]

RECURSIVE SweepEntries(_, _, _)
SweepEntries(st, entries, at) ==
  IF entries = <<>> THEN st
  ELSE SweepEntries(
         IF isExpired(Head(entries), at)
         THEN removeBindingByConversationKey(st, KeyOf(Head(entries)))
         ELSE st,
         Tail(entries), at)

sweepExpiredBindings(st, at) == SweepEntries(st, st.fwd, at)

\* the record is stored before the session and agent are looked at
bindOpenzaloSubagentSessionStoreFirst(st, accountId, to, childSessionKeyRaw, agentIdRaw, ttlMsRaw, at) ==
  LET target == resolveTargetFromTo(to)
      childSessionKey == Trim(childSessionKeyRaw)
      agentId == Trim(agentIdRaw)
      ttlMs == toPositiveInteger(ttlMsRaw)
      record == [accountId |-> normalizeAccountId(accountId), to |-> target.to,
                 threadId |-> target.threadId, isGroup |-> target.isGroup,
                 childSessionKey |-> childSessionKey, agentId |-> agentId,
                 boundAt |-> at, lastTouchedAt |-> at, ttlMs |-> ttlMs,
                 expiresAt |-> IF ttlMs # 0 THEN at + ttlMs ELSE 0]
  IN IF ~target.ok
     THEN [st |-> st, records |-> <<>>]
     ELSE IF childSessionKey = <<>> \/ agentId = <<>>
     THEN [st |-> [st EXCEPT !.fwd = MapSet(@, KeyOf(record), record)], records |-> <<>>]
     ELSE [st |-> setBindingRecord(st, record), records |-> <<record>>]

\* results are [st |-> store after the call, records |-> what the call returns]
bindOpenzaloSubagentSession(st, accountId, to, childSessionKeyRaw, agentIdRaw, ttlMsRaw, at) ==
  LET target == resolveTargetFromTo(to)
      childSessionKey == Trim(childSessionKeyRaw)
      agentId == Trim(agentIdRaw)
      ttlMs == toPositiveInteger(ttlMsRaw)
      record == [accountId |-> normalizeAccountId(accountId), to |-> target.to,
                 threadId |-> target.threadId, isGroup |-> target.isGroup,
                 childSessionKey |-> childSessionKey, agentId |-> agentId,
                 boundAt |-> at, lastTouchedAt |-> at, ttlMs |-> ttlMs,
                 expiresAt |-> IF ttlMs # 0 THEN at + ttlMs ELSE 0]
  IN IF ~target.ok \/ childSessionKey = <<>> \/ agentId = <<>>
     THEN [st |-> st, records |-> <<>>]
     ELSE [st |-> setBindingRecord(st, record), records |-> <<record>>]

resolveOpenzaloBoundSessionByTarget(st, accountId, to, at) ==
  LET swept == sweepExpiredBindings(st, at)
      normalizedTarget == resolveTargetFromTo(to)
      record == MapGet(swept.fwd,
                       toConversationKey(normalizeAccountId(accountId), normalizedTarget.to))
  IN IF ~normalizedTarget.ok \/ record = NoRecord
     THEN [st |-> swept, records |-> <<>>]
     ELSE [st |-> swept, records |-> <<record>>]

\* an absent accountId is the empty string: params.accountId is falsy for both
AccountFilter(accountId) ==
  IF accountId # <<>> THEN normalizeAccountId(accountId) ELSE <<>>

resolveOpenzaloBoundOriginBySession(st, childSessionKeyRaw, accountIdRaw, at) ==
  LET swept == sweepExpiredBindings(st, at)
      childSessionKey == Trim(childSessionKeyRaw)
      conversationKeys ==
        IF childSessionKey \in DOMAIN swept.rev
        THEN SessionEntries(swept, childSessionKey) ELSE <<>>
      accountId == AccountFilter(accountIdRaw)
      IsCandidate(key) ==
        /\ MapHas(swept.fwd, key)
        /\ (accountId = <<>> \/ MapGet(swept.fwd, key).accountId = accountId)
      candidates == SelectSeq(conversationKeys, IsCandidate)
  IN IF childSessionKey = <<>> \/ candidates = <<>>
     THEN [st |-> swept, records |-> <<>>]
     ELSE [st |-> swept, records |-> <<MapGet(swept.fwd, candidates[1])>>]

\* the loop of unbind over a copy of the session's key set
RECURSIVE UnbindKeys(_, _, _, _, _)
UnbindKeys(st, keys, sessionKey, accountId, removed) ==
  IF keys = <<>> THEN [st |-> st, records |-> removed]
  ELSE LET conversationKey == Head(keys)
           existing == MapGet(st.fwd, conversationKey)
       IN IF existing = NoRecord
          THEN UnbindKeys([st EXCEPT !.rev[sessionKey] = SetDelete(@, conversationKey)],
                          Tail(keys), sessionKey, accountId, removed)
          ELSE IF accountId # <<>> /\ existing.accountId # accountId
          THEN UnbindKeys(st, Tail(keys), sessionKey, accountId, removed)
          ELSE UnbindKeys(removeBindingByConversationKey(st, conversationKey),
                          Tail(keys), sessionKey, accountId, Append(removed, existing))

\* after the loop: a key set left empty is taken out of the reverse map
UnbindDone(result, sessionKey) ==
  IF result.st.rev[sessionKey] = <<>>
  THEN [result EXCEPT !.st.linked = @ \ {sessionKey}]
  ELSE result

\* the session's bindings are left in place
unbindOpenzaloSubagentSessionByKeyKeep(st, childSessionKeyRaw, accountIdRaw, at) ==
  [st |-> sweepExpiredBindings(st, at), records |-> <<>>]

\* the account restriction is dropped
unbindOpenzaloSubagentSessionByKeyAnyAccount(st, childSessionKeyRaw, accountIdRaw, at) ==
  LET swept == sweepExpiredBindings(st, at)
      childSessionKey == Trim(childSessionKeyRaw)
      conversationKeys ==
        IF childSessionKey \in DOMAIN swept.rev
        THEN SessionEntries(swept, childSessionKey) ELSE <<>>
  IN IF childSessionKey = <<>> \/ conversationKeys = <<>>
     THEN [st |-> swept, records |-> <<>>]
     ELSE UnbindDone(UnbindKeys(swept, conversationKeys, childSessionKey, <<>>, <<>>),
                     childSessionKey)

unbindOpenzaloSubagentSessionByKey(st, childSessionKeyRaw, accountIdRaw, at) ==
  LET swept == sweepExpiredBindings(st, at)
      childSessionKey == Trim(childSessionKeyRaw)
      conversationKeys ==
        IF childSessionKey \in DOMAIN swept.rev
        THEN SessionEntries(swept, childSessionKey) ELSE <<>>
  IN IF childSessionKey = <<>> \/ conversationKeys = <<>>
     THEN [st |-> swept, records |-> <<>>]
     ELSE UnbindDone(UnbindKeys(swept, conversationKeys, childSessionKey,
                                AccountFilter(accountIdRaw), <<>>),
                     childSessionKey)

snapshotOpenzaloSubagentBindings(st, nowMs) ==
  LET swept == sweepExpiredBindings(st, nowMs)
  IN [st |-> swept, records |-> swept.fwd]

\* ----------------------------------------------------------------- state
VARIABLES
  now,            \* Date.now(), in clock ticks
  inflight,       \* ledger: fingerprint -> ticket id holding the lock (0: none)
  recent,         \* ledger: fingerprint -> expiry of the recent window (0: none)
  nextTicket,     \* ledger: next ticket id
  issued,         \* tickets ever handed out by acquire
  held,           \* tickets handed out and not yet released by their caller
  lastEvent,      \* per fingerprint: "none", "acquired", "sent" or "failed"
  sentAt,         \* per fingerprint: time of the last release with sent:true
  lastAcquire,    \* outcome of the last acquire call, with what preceded it
  buffers,        \* debouncer: key -> entries buffered in the current window
  timers,         \* debouncer: key -> deadline of the pending timer (0: none)
  nextEntry,      \* debouncer: arrival number of the next entry
  flushed,        \* batches handed to onFlush, in hand-off order
  lastLine,       \* what onJsonLine did with the last payload
  flushErrors,    \* onError calls: the number in flushed of the batch that failed
  store,          \* bindingsByConversation (fwd) and conversationKeysBySession (rev)
  storeRet,       \* the last store operation and what it returned
  inForce,        \* binds made and not since replaced, unbound or wiped
  storeOps,       \* number of store mutations made so far
  lockFile,       \* the <file>.lock sentinel: presence, content, mtime
  lockPc,         \* per caller of withStoreFileLock: where it stands
  lockAttempt,    \* per caller: the loop variable attempt
  lockCall,       \* per caller: opens and fn runs of its call, and how it ended
  hookRet,        \* the last hook event and what its handler returned
  hookEvents,     \* number of hook events that got as far as a bind or an unbind
  endedAny,       \* sessions ended and not bound again since
  endedSince,     \* <<session, account filter>> of ended events not undone by a bind
  reboundFrom,    \* <<conversation key, session>> the conversation was taken from
  persistState,   \* per persistBindings() call: "queued", "locking", "writing", "done"
  persistPayload, \* per call: the snapshot its write carries (<<>> before it ran)
  persistOk,      \* per call: whether its write reached the file
  persistCount,   \* number of persistBindings() calls made
  persistAwait,   \* per call: the handler awaiting it and what it returned
  diskFile,       \* the bindings file: exists, bindings
  fnIn,           \* the argument of the function under study
  fnOut,          \* what the function returned for it
  cache,          \* message cache: cacheByKey, its id indexes, latestByThread, counter
  cacheSolo,      \* the cache the same calls build when account b remembers nothing
  latestCall,     \* <<account, thread, chat type>> -> entry of its last remember call
  latestById,     \* <<id kind, account, id>> -> entry of the last remember call with it
  cacheRet,       \* the last cache call and what it returned
  cacheOps,       \* number of remember calls made so far
  histories,      \* pendingGroupHistories: <<key, entries>> in insertion order
  historyRet,     \* the last pending-history call and what it returned
  historyOps,     \* number of append calls made so far
  ready,          \* waitForOpenzcaReady: where it stands, its locals, its sleep timer
  abortSignal,    \* the AbortSignal: aborted, and whether it fired during the poll
  monitor,        \* monitorOpenzaloProvider: where it stands, listener started
  run,            \* runOpenzca: the closure's variables, its timers, what it resolved
  probeCache,     \* probeCache: <<key, probe, expiresAt>> in insertion order
  probeCall       \* probeOpenzaloAuth: the call in progress and the last result

ledgerVars ==
  <<inflight, recent, nextTicket, issued, held, lastEvent, sentAt, lastAcquire>>

debounceVars == <<buffers, timers, nextEntry, flushed, lastLine, flushErrors>>

storeVars == <<store, storeRet, inForce, storeOps>>

lockVars == <<lockFile, lockPc, lockAttempt, lockCall>>

persistVars ==
  <<persistState, persistPayload, persistOk, persistCount, persistAwait, diskFile>>

hookVars == <<hookRet, hookEvents, endedAny, endedSince, reboundFrom, persistVars>>

fnVars == <<fnIn, fnOut>>

cacheVars == <<cache, cacheSolo, latestCall, latestById, cacheRet, cacheOps>>

historyVars == <<histories, historyRet, historyOps>>

readyVars == <<ready, abortSignal, monitor>>

\* the components that follow the hooks: none of the earlier actions touches them
runVars == <<run>>

probeVars == <<probeCache, probeCall>>

extraVars == <<cacheVars, historyVars, readyVars, runVars, probeVars>>

coreVars == <<ledgerVars, debounceVars, storeVars, lockVars, hookVars, fnVars>>

nonCacheVars == <<coreVars, historyVars, readyVars, runVars, probeVars>>

nonHistoryVars == <<coreVars, cacheVars, readyVars, runVars, probeVars>>

nonReadyVars == <<coreVars, cacheVars, historyVars, runVars, probeVars>>

nonRunVars == <<coreVars, cacheVars, historyVars, readyVars, probeVars>>

nonProbeVars == <<coreVars, cacheVars, historyVars, readyVars, runVars>>

nonLedgerVars == <<debounceVars, storeVars, lockVars, hookVars, fnVars, extraVars>>

nonDebounceVars == <<ledgerVars, storeVars, lockVars, hookVars, fnVars, extraVars>>

nonStoreVars == <<ledgerVars, debounceVars, lockVars, hookVars, fnVars, extraVars>>

nonLockVars == <<ledgerVars, debounceVars, storeVars, hookVars, fnVars, extraVars>>

nonFnVars == <<ledgerVars, debounceVars, storeVars, lockVars, hookVars, extraVars>>

\* the hooks work on the store; the rest of the SpecStore bookkeeping is not theirs
nonHookVars ==
  <<ledgerVars, debounceVars, lockVars, storeRet, inForce, storeOps, fnVars,
    extraVars>>

allButNow == <<ledgerVars, debounceVars, storeVars, lockVars, hookVars, fnVars, extraVars>>

\* ------------------------------------------------- outbound dedupe ledger
RecentWindowMs == 2

\* the long prefix two chunks share, scaled down
SharedPrefixLen == 2

SharedPrefix == [i \in 1..SharedPrefixLen |-> "a"]

FirstChunk == SharedPrefix \o <<"1">>

SecondChunk == SharedPrefix \o <<"2">>

TextPayload(text, sequence, idempotencyContext) ==
  [accountId |-> "main", sessionKey |-> "s1", target |-> "user:123",
   kind |-> "text", text |-> text, mediaRef |-> <<>>,
   sequence |-> sequence, idempotencyContext |-> idempotencyContext]

MediaPayload(text, sequence, idempotencyContext) ==
  [accountId |-> "main", sessionKey |-> "s1", target |-> "user:123",
   kind |-> "media", text |-> text, mediaRef |-> <<"a", ".", "j">>,
   sequence |-> sequence, idempotencyContext |-> idempotencyContext]

\* one text send and one media send
BasePayloads ==
  { TextPayload(FirstChunk, 1, "ctx:1"),
    MediaPayload(<<"c">>, 1, "ctx:1") }

\* the same content at two occurrences
SequencePayloads ==
  BasePayloads \cup { TextPayload(FirstChunk, 2, "ctx:1"),
                      MediaPayload(<<>>, 2, "ctx:1") }

\* the same text under another context, and another text with the same prefix
ScopePayloads ==
  { TextPayload(FirstChunk, 1, "ctx:1"),
    TextPayload(FirstChunk, 1, "ctx:2"),
    TextPayload(SecondChunk, 1, "ctx:1") }

Payloads == SequencePayloads \cup ScopePayloads

FingerprintNoSequence(p) ==
  <<p.accountId, p.sessionKey, p.target, p.kind,
    IF p.kind = "media" THEN p.mediaRef ELSE p.text,
    0, p.idempotencyContext>>

FingerprintNoContext(p) ==
  <<p.accountId, p.sessionKey, p.target, p.kind,
    IF p.kind = "media" THEN p.mediaRef ELSE p.text,
    p.sequence, "">>

FingerprintPrefixOnly(p) ==
  <<p.accountId, p.sessionKey, p.target, p.kind,
    IF p.kind = "media" THEN p.mediaRef
    ELSE SubSeq(p.text, 1, IF Len(p.text) < SharedPrefixLen
                           THEN Len(p.text) ELSE SharedPrefixLen),
    p.sequence, p.idempotencyContext>>

\* composite fingerprint of one send intent; the content hash is sensitive
\* to the whole content, so it is modelled by the content itself
Fingerprint(p) ==
  <<p.accountId, p.sessionKey, p.target, p.kind,
    IF p.kind = "media" THEN p.mediaRef ELSE p.text,
    p.sequence, p.idempotencyContext>>

Fingerprints == {Fingerprint(p) : p \in Payloads}

NoAcquire == [op |-> "none"]

\* recent entries whose window has elapsed are forgotten
PruneRecentNever(rec, at) == rec

PruneRecent(rec, at) ==
  [f \in DOMAIN rec |-> IF rec[f] # 0 /\ rec[f] <= at THEN 0 ELSE rec[f]]

AcquireOutcomeNoInflightCheck(f, at) ==
  IF PruneRecent(recent, at)[f] # 0 THEN "recent" ELSE "acquired"

AcquireOutcome(f, at) ==
  IF inflight[f] # 0 THEN "inflight"
  ELSE IF PruneRecent(recent, at)[f] # 0 THEN "recent"
  ELSE "acquired"

Acquire(p) ==
  LET f == Fingerprint(p)
      outcome == AcquireOutcome(f, now)
      ticket == [id |-> nextTicket, fp |-> f]
  IN /\ nextTicket <= MaxTickets
     /\ recent' = PruneRecent(recent, now)
     /\ lastAcquire' = [op |-> "acquire", fp |-> f, at |-> now,
                        preEvent |-> lastEvent[f], preSentAt |-> sentAt[f],
                        outcome |-> outcome]
     /\ IF outcome = "acquired"
        THEN /\ inflight' = [inflight EXCEPT ![f] = ticket.id]
             /\ nextTicket' = nextTicket + 1
             /\ issued' = issued \cup {ticket}
             /\ held' = held \cup {ticket}
             /\ lastEvent' = [lastEvent EXCEPT ![f] = "acquired"]
        ELSE UNCHANGED <<inflight, nextTicket, issued, held, lastEvent>>
     /\ UNCHANGED <<now, sentAt>>
     /\ UNCHANGED nonLedgerVars

RecentAfterReleaseKeepFailed(t, sent, at) ==
  IF inflight[t.fp] = t.id
  THEN [recent EXCEPT ![t.fp] = at + RecentWindowMs]
  ELSE recent

RecentAfterRelease(t, sent, at) ==
  IF inflight[t.fp] = t.id /\ sent
  THEN [recent EXCEPT ![t.fp] = at + RecentWindowMs]
  ELSE recent

\* tickets the ledger never handed out
UnknownTickets == {[id |-> MaxTickets + 1, fp |-> f] : f \in Fingerprints}

InflightAfterReleaseAnyTicket(t) == [inflight EXCEPT ![t.fp] = 0]

\* only the ticket that holds the lock of its fingerprint gives it up
InflightAfterRelease(t) ==
  IF inflight[t.fp] = t.id
  THEN [inflight EXCEPT ![t.fp] = 0]
  ELSE inflight

Release(t, sent) ==
  /\ t \in issued \cup UnknownTickets
  /\ recent' = RecentAfterRelease(t, sent, now)
  /\ inflight' = InflightAfterRelease(t)
  /\ held' = held \ {t}
  /\ IF t \in held
     THEN /\ lastEvent' = [lastEvent EXCEPT ![t.fp] = IF sent THEN "sent" ELSE "failed"]
          /\ sentAt' = IF sent THEN [sentAt EXCEPT ![t.fp] = now] ELSE sentAt
     ELSE UNCHANGED <<lastEvent, sentAt>>
  /\ lastAcquire' = [op |-> "release", fp |-> t.fp, at |-> now, sent |-> sent,
                     wasHeld |-> (t \in held), known |-> (t \in issued)]
  /\ UNCHANGED <<now, nextTicket, issued>>
  /\ UNCHANGED nonLedgerVars

Tick ==
  /\ now < MaxTime
  /\ now' = now + 1
  /\ UNCHANGED allButNow

LedgerInit ==
  /\ inflight = [f \in Fingerprints |-> 0]
  /\ recent = [f \in Fingerprints |-> 0]
  /\ nextTicket = 1
  /\ issued = {}
  /\ held = {}
  /\ lastEvent = [f \in Fingerprints |-> "none"]
  /\ sentAt = [f \in Fingerprints |-> 0]
  /\ lastAcquire = NoAcquire

\* ------------------------------------------------------ inbound debouncer
DEFAULT_INBOUND_DEBOUNCE_MS == 2

MonitorAccountId == <<"m">>

RECURSIVE Join(_, _)
Join(parts, sep) ==
  IF parts = <<>> THEN <<>>
  ELSE IF Len(parts) = 1 THEN parts[1]
  ELSE parts[1] \o sep \o Join(Tail(parts), sep)

\* <<>> entries are dropped, the others trimmed and kept once, in first-seen order
RECURSIVE DedupeFrom(_, _)
DedupeFrom(values, out) ==
  IF values = <<>> THEN out
  ELSE DedupeFrom(Tail(values),
         IF Trim(Head(values)) = <<>> \/ SetHas(out, Trim(Head(values)))
         THEN out ELSE Append(out, Trim(Head(values))))

dedupeStrings(values) == DedupeFrom(values, <<>>)

\* /^([/!]|@\S)/
IsCommandText(text) ==
  /\ text # <<>>
  /\ \/ text[1] \in {"/", "!"}
     \/ text[1] = "@" /\ Len(text) >= 2 /\ ~IsSpace(text[2])

resolveCombinedText(texts) ==
  IF texts = <<>> THEN <<>>
  ELSE IF Len(texts) = 1 THEN texts[1]
  ELSE IF IsCommandText(Trim(texts[Len(texts)])) THEN texts[Len(texts)]
  ELSE Join(texts, <<"\n">>)

TextsOf(messages) == [i \in 1..Len(messages) |-> messages[i].text]

FieldOf(messages, field) == [i \in 1..Len(messages) |-> messages[i][field]]

\* the field is taken from the first entry whatever it holds
FirstTruthyOfHead(values) == values[1]

\* messages.find((msg) => Boolean(msg.field))?.field || undefined
FirstTruthy(values) ==
  IF \A i \in 1..Len(values) : values[i] = <<>> THEN <<>>
  ELSE values[CHOOSE i \in 1..Len(values) :
                /\ values[i] # <<>>
                /\ \A j \in 1..(i - 1) : values[j] = <<>>]

\* a || b
OrElse(a, b) == IF a # <<>> THEN a ELSE b

\* the merged message of two entries or more keeps the first message's
\* routing fields; a single entry is returned as it is
combineDebouncedInbound(messages) ==
  IF Len(messages) = 1 THEN messages[1]
  ELSE [messages[1] EXCEPT
          !.messageId = OrElse(FirstTruthy(FieldOf(messages, "msgId")),
                               OrElse(FirstTruthy(FieldOf(messages, "cliMsgId")),
                                      messages[1].messageId)),
          !.msgId = FirstTruthy(FieldOf(messages, "msgId")),
          !.cliMsgId = FirstTruthy(FieldOf(messages, "cliMsgId")),
          !.text = resolveCombinedText(dedupeStrings(TextsOf(messages))),
          !.quoteMsgId = FirstTruthy(FieldOf(messages, "quoteMsgId")),
          !.quoteCliMsgId = FirstTruthy(FieldOf(messages, "quoteCliMsgId")),
          !.quoteSender = FirstTruthy(FieldOf(messages, "quoteSender")),
          !.quoteText = FirstTruthy(FieldOf(messages, "quoteText")),
          !.raw = messages[Len(messages)].raw]

\* a message without ids and quote; <<>> stands for undefined and for ""
InboundMessage(isGroup, threadId, senderId, text) ==
  [isGroup |-> isGroup, threadId |-> threadId, senderId |-> senderId, text |-> text,
   messageId |-> <<>>, msgId |-> <<>>, cliMsgId |-> <<>>, quoteMsgId |-> <<>>,
   quoteCliMsgId |-> <<>>, quoteSender |-> <<>>, quoteText |-> <<>>, raw |-> <<>>]

InboundMessages ==
  { InboundMessage(TRUE,  <<"7">>,      <<"1">>, <<"h", "i">>),
    InboundMessage(TRUE,  <<"7", " ">>, <<"1">>, <<"y", "o">>),
    InboundMessage(TRUE,  <<"7">>,      <<"2">>, <<"h", "i">>),
    InboundMessage(FALSE, <<"1">>,      <<"1">>, <<"/", "s">>) }

LifecyclePayload == [kind |-> "lifecycle", event |-> "connected"]

InboundPayloads ==
  {LifecyclePayload} \cup {[kind |-> "message", message |-> m] : m \in InboundMessages}

NullMessage == InboundMessage(FALSE, <<>>, <<>>, <<>>)

\* the payload's inbound message, or null for a payload that carries none
normalizeOpenzcaInboundPayload(payload) ==
  IF payload.kind = "message" THEN payload.message ELSE NullMessage

\* the key names the conversation only
buildOpenzaloDebounceKeyNoSender(accountId, message) ==
  Join(<< <<"o", "z">>, accountId,
          IF message.isGroup THEN <<"g", "r", "o", "u", "p">>
                             ELSE <<"d", "i", "r", "e", "c", "t">>,
          Trim(message.threadId) >>, <<":">>)

buildOpenzaloDebounceKey(accountId, message) ==
  Join(<< <<"o", "z">>, accountId,
          IF message.isGroup THEN <<"g", "r", "o", "u", "p">>
                             ELSE <<"d", "i", "r", "e", "c", "t">>,
          Trim(message.threadId), Trim(message.senderId) >>, <<":">>)

DebounceKeys ==
  {buildOpenzaloDebounceKey(MonitorAccountId, m) : m \in InboundMessages}

\* every entry restarts the timer of its key
TimersAfterEnqueueRolling(key) ==
  [timers EXCEPT ![key] = now + DEFAULT_INBOUND_DEBOUNCE_MS]

\* the timer of a key is started by the first entry of a window only
TimersAfterEnqueue(key) ==
  IF timers[key] = 0
  THEN [timers EXCEPT ![key] = now + DEFAULT_INBOUND_DEBOUNCE_MS]
  ELSE timers

enqueue(entry) ==
  LET key == buildOpenzaloDebounceKey(MonitorAccountId, entry.message)
  IN /\ buffers' = [buffers EXCEPT ![key] = Append(@, entry)]
     /\ timers' = TimersAfterEnqueue(key)
     /\ nextEntry' = nextEntry + 1

onJsonLine(payload) ==
  LET message == normalizeOpenzcaInboundPayload(payload)
  IN /\ nextEntry <= MaxEntries
     /\ IF message = NullMessage
        THEN /\ lastLine' = "ignored"
             /\ UNCHANGED <<buffers, timers, nextEntry>>
        ELSE /\ lastLine' = "enqueued"
             /\ enqueue([id |-> nextEntry, message |-> message, at |-> now])
     /\ UNCHANGED <<now, flushed, flushErrors>>
     /\ UNCHANGED nonDebounceVars

BuffersAfterFlushKeep(key) == buffers

BuffersAfterFlush(key) == [buffers EXCEPT ![key] = <<>>]

\* a failing flush goes unreported
ErrorsAfterFlushSilent(key, ok) == flushErrors

\* the engine catches what onFlush throws and hands it to onError
ErrorsAfterFlush(key, ok) ==
  IF ok \/ buffers[key] = <<>> THEN flushErrors
  ELSE Append(flushErrors, Len(flushed) + 1)

\* timer expiry: hand the whole buffer of the key to onFlush, which either
\* dispatches the (merged) message or throws into onError
onFlush(key, ok) ==
  /\ timers[key] # 0
  /\ now >= timers[key]
  /\ flushed' = IF buffers[key] = <<>> THEN flushed
                ELSE Append(flushed,
                       [key |-> key, entries |-> buffers[key], ok |-> ok, at |-> now,
                        message |-> combineDebouncedInbound(
                          [i \in 1..Len(buffers[key]) |-> buffers[key][i].message])])
  /\ buffers' = BuffersAfterFlush(key)
  /\ timers' = [timers EXCEPT ![key] = 0]
  /\ flushErrors' = ErrorsAfterFlush(key, ok)
  /\ UNCHANGED <<now, nextEntry, lastLine>>
  /\ UNCHANGED nonDebounceVars

DebounceInit ==
  /\ buffers = [k \in DebounceKeys |-> <<>>]
  /\ timers = [k \in DebounceKeys |-> 0]
  /\ nextEntry = 1
  /\ flushed = <<>>
  /\ lastLine = "none"
  /\ flushErrors = <<>>

\* ----------------------------------------- binding store: restore, actions
RawRecord(accountId, to, childSessionKey, agentId, ttlMs, boundAt, lastTouchedAt, expiresAt) ==
  [accountId |-> accountId, to |-> to, childSessionKey |-> childSessionKey,
   agentId |-> agentId, ttlMs |-> ttlMs, boundAt |-> boundAt,
   lastTouchedAt |-> lastTouchedAt, expiresAt |-> expiresAt]

\* the binding time is taken anew at the restore
restoreBindingRecordRebound(raw, nowMs) ==
  LET target == resolveTargetFromTo(toOptionalString(raw.to))
      childSessionKey == toOptionalString(raw.childSessionKey)
      agentId == toOptionalString(raw.agentId)
      ttlMs == toPositiveInteger(raw.ttlMs)
  IN IF ~target.ok THEN NoRecord
     ELSE IF childSessionKey = <<>> \/ agentId = <<>> THEN NoRecord
     ELSE [accountId |-> normalizeAccountId(toOptionalString(raw.accountId)),
           to |-> target.to, threadId |-> target.threadId, isGroup |-> target.isGroup,
           childSessionKey |-> childSessionKey, agentId |-> agentId,
           boundAt |-> nowMs, lastTouchedAt |-> nowMs,
           ttlMs |-> ttlMs, expiresAt |-> IF ttlMs # 0 THEN nowMs + ttlMs ELSE 0]

\* NoRecord stands for null
restoreBindingRecord(raw, nowMs) ==
  LET target == resolveTargetFromTo(toOptionalString(raw.to))
      childSessionKey == toOptionalString(raw.childSessionKey)
      agentId == toOptionalString(raw.agentId)
      ttlMs == toPositiveInteger(raw.ttlMs)
      boundAt == IF toTimestamp(raw.boundAt) # 0 THEN toTimestamp(raw.boundAt) ELSE nowMs
      lastTouchedAt ==
        IF toTimestamp(raw.lastTouchedAt) # 0 THEN toTimestamp(raw.lastTouchedAt) ELSE boundAt
      expiresAt ==
        IF toPositiveInteger(raw.expiresAt) # 0 THEN toPositiveInteger(raw.expiresAt)
        ELSE IF ttlMs # 0 THEN lastTouchedAt + ttlMs ELSE 0
  IN IF ~target.ok THEN NoRecord
     ELSE IF childSessionKey = <<>> \/ agentId = <<>> THEN NoRecord
     ELSE IF expiresAt # 0 /\ expiresAt <= nowMs THEN NoRecord
     ELSE [accountId |-> normalizeAccountId(toOptionalString(raw.accountId)),
           to |-> target.to, threadId |-> target.threadId, isGroup |-> target.isGroup,
           childSessionKey |-> childSessionKey, agentId |-> agentId,
           boundAt |-> boundAt, lastTouchedAt |-> lastTouchedAt,
           ttlMs |-> ttlMs, expiresAt |-> expiresAt]

RawSessions == { <<"a">>, <<"b", " ">>, <<" ">> }

SessionKeys == {Trim(x) : x \in RawSessions} \ {<<>>}

EmptyStore == [fwd |-> <<>>, rev |-> [k \in SessionKeys |-> <<>>], linked |-> {}]

\* the loop gives up at the first record that is not restored
RECURSIVE RestoreEachStopAtInvalid(_, _, _, _)
RestoreEachStopAtInvalid(st, records, nowMs, count) ==
  IF records = <<>> THEN [st |-> st, records |-> <<>>, count |-> count]
  ELSE LET restored == restoreBindingRecord(Head(records), nowMs)
       IN IF restored = NoRecord
          THEN [st |-> st, records |-> <<>>, count |-> count]
          ELSE RestoreEachStopAtInvalid(setBindingRecord(st, restored), Tail(records),
                                        nowMs, count + 1)

RECURSIVE RestoreEach(_, _, _, _)
RestoreEach(st, records, nowMs, count) ==
  IF records = <<>> THEN [st |-> st, records |-> <<>>, count |-> count]
  ELSE LET restored == restoreBindingRecord(Head(records), nowMs)
       IN IF restored = NoRecord
          THEN RestoreEach(st, Tail(records), nowMs, count)
          ELSE RestoreEach(setBindingRecord(st, restored), Tail(records), nowMs, count + 1)

\* the unknown value handed to replaceAll: an array of raw records or not
RawArray(items) == [isArray |-> TRUE, items |-> items]

NotAnArray == [isArray |-> FALSE, items |-> <<>>]

replaceOpenzaloSubagentBindings(records, nowMs) ==
  IF ~records.isArray
  THEN [st |-> EmptyStore, records |-> <<>>, count |-> 0]
  ELSE RestoreEach(EmptyStore, records.items, nowMs, 0)

\* what JSON.stringify keeps of a record: undefined numbers are left out
ToRaw(record) ==
  RawRecord(record.accountId, record.to, record.childSessionKey, record.agentId,
            IF record.ttlMs # 0 THEN Num(record.ttlMs) ELSE Undef,
            Num(record.boundAt), Num(record.lastTouchedAt),
            IF record.expiresAt # 0 THEN Num(record.expiresAt) ELSE Undef)

ToRawList(records) == [i \in 1..Len(records) |-> ToRaw(records[i])]

RawAccounts == { <<>>, <<"W">> }

TargetGroup1 == <<"g", "r", "o", "u", "p", ":", "1">>
TargetGDash1 == <<"G", "-", "1">>
TargetOzlG1 == <<"o", "z", "l", ":", "g", ":", " ", "1">>
TargetBare1 == <<"1">>
TargetDm1 == <<" ", "d", "m", ":", "1">>
TargetNoId == <<"g", "r", "o", "u", "p", ":">>
TargetBlank == <<" ">>

RawTargets ==
  { TargetGroup1, TargetGDash1, TargetOzlG1, TargetBare1, TargetDm1,
    TargetNoId, TargetBlank }

\* <<accountId, to, childSessionKey, agentId, ttlMs>> of the bind calls made
BindInputs ==
  { << <<>>,    TargetGroup1, <<"a">>,      <<"x">>, Undef >>,
    << <<>>,    TargetGDash1, <<"b", " ">>, <<"x">>, Num(1) >>,
    << <<>>,    TargetBare1,  <<"a">>,      <<"x">>, Num(1) >>,
    << <<>>,    TargetDm1,    <<"b", " ">>, <<"x">>, Undef >>,
    << <<"W">>, TargetOzlG1,  <<"a">>,      <<"x">>, Num(2) >>,
    << <<>>,    TargetGroup1, <<"b", " ">>, <<"x">>, Num(0) >>,
    << <<>>,    TargetBlank,  <<"a">>,      <<"x">>, Undef >>,
    << <<>>,    TargetNoId,   <<"a">>,      <<"x">>, Undef >>,
    << <<>>,    TargetGroup1, <<" ">>,      <<"x">>, Undef >>,
    << <<>>,    TargetGroup1, <<"a">>,      <<>>,    Undef >> }

RestoreInputs ==
  { NotAnArray,
    RawArray(<<>>),
    RawArray(
    << RawRecord(DEFAULT_ACCOUNT_ID, <<"g", "-", "1">>, <<"a">>, <<"x">>,
                 Undef, Num(1), Num(1), Undef),
       RawRecord(DEFAULT_ACCOUNT_ID, <<" ", " ">>, <<"b">>, <<"x">>,
                 Undef, Undef, Undef, Undef),
       RawRecord(DEFAULT_ACCOUNT_ID, <<"u", ":", "1">>, <<"b">>, <<"x">>,
                 Undef, Undef, Undef, Num(1)) >>),
    RawArray(
    << RawRecord(<<"w">>, <<"1">>, <<"a">>, <<"x">>, Num(2), Num(1), Undef, Undef),
       RawRecord(<<"W">>, <<"u", ":", "1">>, <<"b">>, <<"x">>, Undef, Undef, Undef, Undef) >>) }

NoStoreRet == [op |-> "none", at |-> 0, records |-> <<>>]

\* the binds of inForce that a bind on this record's conversation replaces
SameConversation(b, record) ==
  b.accountId = record.accountId /\ b.to = record.to

Bind(accountId, to, childSessionKey, agentId, ttlMs) ==
  LET result == bindOpenzaloSubagentSession(store, accountId, to, childSessionKey,
                                            agentId, ttlMs, now)
  IN /\ storeOps < MaxStoreOps
     /\ store' = result.st
     /\ storeOps' = storeOps + 1
     /\ IF result.records = <<>>
        THEN /\ storeRet' = [op |-> "bind", at |-> now, records |-> <<>>,
                             replaced |-> <<>>]
             /\ UNCHANGED inForce
        ELSE /\ storeRet' = [op |-> "bind", at |-> now, records |-> result.records,
                             replaced |-> MapGet(store.fwd, KeyOf(result.records[1])).childSessionKey]
             /\ inForce' = {b \in inForce : ~SameConversation(b, result.records[1])}
                             \cup {result.records[1]}
     /\ UNCHANGED now
     /\ UNCHANGED nonStoreVars

ResolveByTarget(accountId, to) ==
  LET result == resolveOpenzaloBoundSessionByTarget(store, accountId, to, now)
  IN /\ store' = result.st
     /\ storeRet' = [op |-> "resolveByTarget", at |-> now, records |-> result.records,
                     key |-> toConversationKey(normalizeAccountId(accountId),
                                               resolveTargetFromTo(to).to)]
     /\ UNCHANGED <<now, inForce, storeOps>>
     /\ UNCHANGED nonStoreVars

ResolveOriginBySession(childSessionKey, accountId) ==
  LET result == resolveOpenzaloBoundOriginBySession(store, childSessionKey, accountId, now)
  IN /\ store' = result.st
     /\ storeRet' = [op |-> "resolveOriginBySession", at |-> now, records |-> result.records,
                     childSessionKey |-> Trim(childSessionKey),
                     accountId |-> AccountFilter(accountId)]
     /\ UNCHANGED <<now, inForce, storeOps>>
     /\ UNCHANGED nonStoreVars

UnbindBySession(childSessionKey, accountId) ==
  LET result == unbindOpenzaloSubagentSessionByKey(store, childSessionKey, accountId, now)
  IN /\ storeOps < MaxStoreOps
     /\ store' = result.st
     /\ storeOps' = storeOps + 1
     /\ storeRet' = [op |-> "unbindBySession", at |-> now, records |-> result.records,
                     childSessionKey |-> Trim(childSessionKey),
                     accountId |-> AccountFilter(accountId)]
     /\ inForce' = {b \in inForce :
                      ~(/\ b.childSessionKey = Trim(childSessionKey)
                        /\ (accountId = <<>> \/ b.accountId = normalizeAccountId(accountId)))}
     /\ UNCHANGED now
     /\ UNCHANGED nonStoreVars

Snapshot ==
  LET result == snapshotOpenzaloSubagentBindings(store, now)
  IN /\ store' = result.st
     /\ storeRet' = [op |-> "snapshot", at |-> now, records |-> result.records]
     /\ UNCHANGED <<now, inForce, storeOps>>
     /\ UNCHANGED nonStoreVars

ReplaceAll(records) ==
  LET result == replaceOpenzaloSubagentBindings(records, now)
  IN /\ storeOps < MaxStoreOps
     /\ store' = result.st
     /\ storeOps' = storeOps + 1
     /\ storeRet' = [op |-> "replaceAll", at |-> now, records |-> <<>>,
                     count |-> result.count, before |-> Len(store.fwd)]
     /\ inForce' = {}
     /\ UNCHANGED now
     /\ UNCHANGED nonStoreVars

\* a restart: the snapshot goes through the JSON file and is loaded again
SnapshotRestoreDone(snap, restored) ==
  /\ store' = restored.st
  /\ storeRet' = [op |-> "restore", at |-> now, records |-> snap.records,
                  count |-> restored.count, before |-> store]
  /\ UNCHANGED <<now, inForce, storeOps>>
  /\ UNCHANGED nonStoreVars

SnapshotRestore ==
  SnapshotRestoreDone(
    snapshotOpenzaloSubagentBindings(store, now),
    replaceOpenzaloSubagentBindings(
      RawArray(ToRawList(snapshotOpenzaloSubagentBindings(store, now).records)), now))

\* time passes for the store; the last result has been consumed by then
StoreTick ==
  /\ now < MaxStoreTime
  /\ now' = now + 1
  /\ storeRet' = NoStoreRet
  /\ UNCHANGED <<store, inForce, storeOps>>
  /\ UNCHANGED nonStoreVars

StoreInit ==
  /\ store = EmptyStore
  /\ storeRet = NoStoreRet
  /\ inForce = {}
  /\ storeOps = 0

\* --------------------------------------------------- advisory file lock
LockRetries == 8

\* STORE_LOCK_OPTIONS.stale, in clock ticks
StaleMs == 2

LockAttempts == IF LockRetries + 1 > 1 THEN LockRetries + 1 ELSE 1

LockCallers == 1..NumLockCallers

\* createdAt = 0: the file holds no parsable createdAt (it is still empty)
NoLockFile == [exists |-> FALSE, owner |-> 0, createdAt |-> 0, mtime |-> 0]

\* isStaleLock, first try block: readFile and the createdAt of the content
StaleByContent(file, at) ==
  file.exists /\ file.createdAt # 0 /\ at - file.createdAt > StaleMs

\* isStaleLock, second try block: stat and the mtime; a failing stat is stale
StaleByStat(file, at) ==
  IF file.exists THEN at - file.mtime > StaleMs ELSE TRUE

\* a call that has not opened anything yet
NewLockCall == [opens |-> 0, runs |-> 0, made |-> FALSE, end |-> "none"]

\* the call of p ends: it returns fn's result or throws
LockCallEnds(p, how) == [lockCall EXCEPT ![p].end = how]

\* a caller enters withStoreFileLock: attempt = 0
EnterLock(p) ==
  /\ lockPc[p] = "idle"
  /\ lockPc' = [lockPc EXCEPT ![p] = "open"]
  /\ lockAttempt' = [lockAttempt EXCEPT ![p] = 0]
  /\ lockCall' = [lockCall EXCEPT ![p] = NewLockCall]
  /\ UNCHANGED <<now, lockFile>>
  /\ UNCHANGED nonLockVars

\* fsp.open(lockPath, "wx"): creates the file or fails with EEXIST
OpenLock(p) ==
  /\ lockPc[p] = "open"
  /\ IF lockFile.exists
     THEN /\ lockPc' = [lockPc EXCEPT ![p] = "read"]
          /\ lockCall' = [lockCall EXCEPT ![p].opens = @ + 1]
          /\ UNCHANGED lockFile
     ELSE /\ lockPc' = [lockPc EXCEPT ![p] = "write"]
          /\ lockCall' = [lockCall EXCEPT ![p].opens = @ + 1, ![p].made = TRUE]
          /\ lockFile' = [exists |-> TRUE, owner |-> p, createdAt |-> 0, mtime |-> now]
  /\ UNCHANGED <<now, lockAttempt>>
  /\ UNCHANGED nonLockVars

\* handle.writeFile: the write goes to the file this caller created, which
\* is the file at lockPath only while nobody has removed it; fn() is called next
WriteLock(p) ==
  /\ lockPc[p] = "write"
  /\ lockFile' = IF lockFile.exists /\ lockFile.owner = p
                 THEN [lockFile EXCEPT !.createdAt = now, !.mtime = now]
                 ELSE lockFile
  /\ lockPc' = [lockPc EXCEPT ![p] = "fn"]
  /\ lockCall' = [lockCall EXCEPT ![p].runs = @ + 1]
  /\ UNCHANGED <<now, lockAttempt>>
  /\ UNCHANGED nonLockVars

\* handle.writeFile rejects (the disk is full, say): the outer catch closes the
\* handle and rethrows the error, whose code is not EEXIST
WriteLockFails(p) ==
  /\ lockPc[p] = "write"
  /\ lockPc' = [lockPc EXCEPT ![p] = "idle"]
  /\ lockCall' = LockCallEnds(p, "threw")
  /\ UNCHANGED <<now, lockFile, lockAttempt>>
  /\ UNCHANGED nonLockVars

\* fn() returns: the caller leaves its critical section
FnReturns(p) ==
  /\ lockPc[p] = "fn"
  /\ lockPc' = [lockPc EXCEPT ![p] = "release"]
  /\ UNCHANGED <<now, lockFile, lockAttempt, lockCall>>
  /\ UNCHANGED nonLockVars

\* fn() throws what writeJsonFileAtomically throws (never EEXIST: its writeFile
\* and rename replace what is there)
FnThrows(p) ==
  /\ lockPc[p] = "fn"
  /\ lockPc' = [lockPc EXCEPT ![p] = "rethrow"]
  /\ UNCHANGED <<now, lockFile, lockAttempt, lockCall>>
  /\ UNCHANGED nonLockVars

\* finally: handle.close() and fsp.rm(lockPath, {force: true}); then the result
\* of fn is returned, or its error goes through the outer catch and is rethrown
ReleaseLock(p) ==
  /\ lockPc[p] \in {"release", "rethrow"}
  /\ lockFile' = NoLockFile
  /\ lockPc' = [lockPc EXCEPT ![p] = "idle"]
  /\ lockCall' = LockCallEnds(p, IF lockPc[p] = "release" THEN "returned" ELSE "threw")
  /\ UNCHANGED <<now, lockAttempt>>
  /\ UNCHANGED nonLockVars

\* after EEXIST: isStaleLock reads the lock file
ReadLock(p) ==
  /\ lockPc[p] = "read"
  /\ lockPc' = [lockPc EXCEPT ![p] = IF StaleByContent(lockFile, now) THEN "rm" ELSE "stat"]
  /\ UNCHANGED <<now, lockFile, lockAttempt, lockCall>>
  /\ UNCHANGED nonLockVars

\* isStaleLock stats the lock file; a live lock is waited for (sleep) unless
\* this was the last attempt, which ends in the lock timeout error
StatLock(p) ==
  /\ lockPc[p] = "stat"
  /\ IF StaleByStat(lockFile, now)
     THEN /\ lockPc' = [lockPc EXCEPT ![p] = "rm"]
          /\ UNCHANGED <<lockAttempt, lockCall>>
     ELSE IF lockAttempt[p] >= LockAttempts - 1
     THEN /\ lockPc' = [lockPc EXCEPT ![p] = "idle"]
          /\ lockCall' = LockCallEnds(p, "timeout")
          /\ UNCHANGED lockAttempt
     ELSE /\ lockPc' = [lockPc EXCEPT ![p] = "open"]
          /\ lockAttempt' = [lockAttempt EXCEPT ![p] = @ + 1]
          /\ UNCHANGED lockCall
  /\ UNCHANGED <<now, lockFile>>
  /\ UNCHANGED nonLockVars

\* the lock was judged stale: fsp.rm(lockPath, {force: true}) and continue; the
\* loop ends in the lock timeout error when this was the last attempt
RemoveStaleLock(p) ==
  /\ lockPc[p] = "rm"
  /\ lockFile' = NoLockFile
  /\ lockAttempt' = [lockAttempt EXCEPT ![p] = @ + 1]
  /\ lockPc' = [lockPc EXCEPT ![p] =
                  IF lockAttempt[p] + 1 < LockAttempts THEN "open" ELSE "idle"]
  /\ lockCall' = IF lockAttempt[p] + 1 < LockAttempts THEN lockCall
                 ELSE LockCallEnds(p, "timeout")
  /\ UNCHANGED now
  /\ UNCHANGED nonLockVars

LockTick ==
  /\ now < MaxLockTime
  /\ now' = now + 1
  /\ UNCHANGED allButNow

LockInit ==
  /\ lockFile = NoLockFile
  /\ lockPc = [p \in LockCallers |-> "idle"]
  /\ lockAttempt = [p \in LockCallers |-> 0]
  /\ lockCall = [p \in LockCallers |-> NewLockCall]

\* ------------------------------------------- subagent hooks, persistence
ChannelOpenzalo == <<"o", "p", "e", "n", "z", "a", "l", "o">>

\* clock ticks per hour: the clock of the hooks counts whole hours
MsPerHour == 1

resolveThreadBindingTtlMs(ttlHours) ==
  IF ttlHours <= 0 THEN Undef
  ELSE Num(IF ttlHours * MsPerHour < 1 THEN 1 ELSE ttlHours * MsPerHour)

\* what resolveThreadBindingFlags makes of the configuration
ThreadBindingFlags(enabled, spawnSubagentSessions, ttlHours) ==
  [enabled |-> enabled, spawnSubagentSessions |-> spawnSubagentSessions,
   ttlHours |-> ttlHours]

FlagsNoTtl == ThreadBindingFlags(TRUE, TRUE, 0)
FlagsTtl == ThreadBindingFlags(TRUE, TRUE, 2)

SpawningEvent(threadRequested, channel, accountId, to, childSessionKey, agentId, flags) ==
  [threadRequested |-> threadRequested, channel |-> channel, accountId |-> accountId,
   to |-> to, childSessionKey |-> childSessionKey, agentId |-> agentId, flags |-> flags]

ChannelSpaced == <<" ", "O", "p", "e", "n", "Z", "a", "l", "o">>
ChannelOther == <<"t", "g">>

SpawningEvents ==
  { SpawningEvent(TRUE, ChannelSpaced, <<>>, TargetGroup1, <<"a">>, <<"x">>, FlagsNoTtl),
    SpawningEvent(TRUE, ChannelOpenzalo, <<"W">>, TargetBare1, <<"a">>, <<"x">>, FlagsTtl),
    SpawningEvent(TRUE, ChannelOpenzalo, <<>>, TargetGDash1, <<"b", " ">>, <<"x">>, FlagsNoTtl),
    SpawningEvent(TRUE, ChannelOpenzalo, <<>>, TargetBlank, <<"a">>, <<"x">>, FlagsNoTtl),
    SpawningEvent(TRUE, ChannelOpenzalo, <<>>, TargetNoId, <<"a">>, <<"x">>, FlagsNoTtl),
    SpawningEvent(TRUE, ChannelOther, <<>>, TargetGroup1, <<"a">>, <<"x">>, FlagsNoTtl),
    SpawningEvent(FALSE, ChannelOpenzalo, <<>>, TargetGroup1, <<"a">>, <<"x">>, FlagsNoTtl),
    SpawningEvent(TRUE, ChannelOpenzalo, <<>>, TargetGroup1, <<"a">>, <<"x">>,
                  ThreadBindingFlags(FALSE, TRUE, 0)),
    SpawningEvent(TRUE, ChannelOpenzalo, <<>>, TargetGroup1, <<"a">>, <<"x">>,
                  ThreadBindingFlags(TRUE, FALSE, 0)) }

PersistingSpawningEvents ==
  { SpawningEvent(TRUE, ChannelSpaced, <<>>, TargetGroup1, <<"a">>, <<"x">>, FlagsNoTtl),
    SpawningEvent(TRUE, ChannelOpenzalo, <<"W">>, TargetBare1, <<"a">>, <<"x">>, FlagsTtl),
    SpawningEvent(TRUE, ChannelOpenzalo, <<>>, TargetGDash1, <<"b", " ">>, <<"x">>, FlagsNoTtl) }

EndedEvent(targetKind, targetSessionKey, accountId) ==
  [targetKind |-> targetKind, targetSessionKey |-> targetSessionKey,
   accountId |-> accountId]

EndedEvents ==
  { EndedEvent("subagent", <<"a">>, <<>>),
    EndedEvent("subagent", <<"a">>, <<"W">>),
    EndedEvent("subagent", <<"a">>, DEFAULT_ACCOUNT_ID),
    EndedEvent("subagent", <<"b", " ">>, <<>>),
    EndedEvent("session", <<"a">>, <<>>) }

PersistingEndedEvents ==
  { EndedEvent("subagent", <<"a">>, <<>>),
    EndedEvent("subagent", <<"b", " ">>, <<>>) }

DeliveryEvent(expectsCompletionMessage, channel, accountId, childSessionKey) ==
  [expectsCompletionMessage |-> expectsCompletionMessage, channel |-> channel,
   accountId |-> accountId, childSessionKey |-> childSessionKey]

DeliveryEvents ==
  { DeliveryEvent(TRUE, ChannelSpaced, <<>>, <<"a">>),
    DeliveryEvent(TRUE, ChannelOpenzalo, <<"W">>, <<"a">>),
    DeliveryEvent(TRUE, ChannelOpenzalo, DEFAULT_ACCOUNT_ID, <<"b", " ">>),
    DeliveryEvent(TRUE, ChannelOpenzalo, <<>>, <<" ">>),
    DeliveryEvent(FALSE, ChannelOpenzalo, <<>>, <<"a">>),
    DeliveryEvent(TRUE, ChannelOther, <<>>, <<"a">>) }

NoHookRet == [hook |-> "none", status |-> "none"]

PersistIds == 1..MaxHookEvents

NoPayload == [taken |-> FALSE, bindings |-> <<>>]

NoDiskFile == [exists |-> FALSE, bindings |-> <<>>]

\* the chain never runs a persist before the one queued ahead of it
PreviousSettledAlways(i) == TRUE

\* persistQueue.catch(...).then(...): a persist runs once its predecessor settled
PreviousSettled(i) == IF i = 1 THEN TRUE ELSE persistState[i - 1] = "done"

NoAwait == [hook |-> "none", returned |-> "none"]

\* the handler stays at `await persistBindings()` until its persist settles
AwaitPersist(hook) ==
  persistAwait' = [persistAwait EXCEPT ![persistCount + 1] =
                     [hook |-> hook, returned |-> "pending"]]

\* the catch would log and throw the failure on
SettleOutcomeRethrow(succeeded) == IF succeeded THEN "resolved" ELSE "rejected"

\* persistBindingsToDisk catches the lock timeout and the write error and
\* logs them: its promise resolves either way
SettleOutcome(succeeded) == "resolved"

\* what the awaiting handler returns once its persist has settled
HandlerReturn(hook, outcome) ==
  IF hook = "subagent_spawning"
  THEN IF outcome = "resolved" THEN "ok" ELSE "error"
  ELSE IF outcome = "resolved" THEN "undefined" ELSE "rejected"

PersistSettles(i, succeeded) ==
  persistAwait' = [persistAwait EXCEPT ![i].returned =
                     HandlerReturn(persistAwait[i].hook, SettleOutcome(succeeded))]

\* persistBindings(): one more persist at the tail of persistQueue
persistBindings ==
  /\ persistCount' = persistCount + 1
  /\ persistState' = [persistState EXCEPT ![persistCount + 1] = "queued"]
  /\ UNCHANGED <<persistPayload, persistOk, diskFile>>

\* subagent_spawning once the bind has been made
SpawningBound(result) ==
  /\ hookEvents' = hookEvents + 1
  /\ IF result.records = <<>>
     THEN /\ hookRet' = [hook |-> "subagent_spawning", status |-> "error"]
          /\ UNCHANGED <<store, endedAny, endedSince, reboundFrom, persistVars>>
     ELSE /\ store' = result.st
          /\ hookRet' = [hook |-> "subagent_spawning", status |-> "ok"]
          /\ endedAny' = endedAny \ {result.records[1].childSessionKey}
          /\ endedSince' =
               {e \in endedSince :
                  ~(/\ e[1] = result.records[1].childSessionKey
                    /\ (e[2] = <<>> \/ e[2] = result.records[1].accountId))}
          /\ reboundFrom' =
               {e \in reboundFrom :
                  e # <<KeyOf(result.records[1]), result.records[1].childSessionKey>>}
               \cup {<<KeyOf(result.records[1]), x>> :
                       x \in {MapGet(store.fwd, KeyOf(result.records[1])).childSessionKey}
                               \ {<<>>, result.records[1].childSessionKey}}
          /\ persistBindings
          /\ AwaitPersist("subagent_spawning")

subagent_spawning(event) ==
  /\ hookEvents < MaxHookEvents
  /\ IF ~event.threadRequested \/ Trim(ToLowerCase(event.channel)) # ChannelOpenzalo
     THEN /\ hookRet' = [hook |-> "subagent_spawning", status |-> "none"]
          /\ UNCHANGED <<store, hookEvents, endedAny, endedSince, reboundFrom, persistVars>>
     ELSE IF \/ ~event.flags.enabled
             \/ ~event.flags.spawnSubagentSessions
             \/ Trim(event.to) = <<>>
     THEN /\ hookRet' = [hook |-> "subagent_spawning", status |-> "error"]
          /\ UNCHANGED <<store, hookEvents, endedAny, endedSince, reboundFrom, persistVars>>
     ELSE SpawningBound(
            bindOpenzaloSubagentSession(store, event.accountId, Trim(event.to),
              event.childSessionKey, event.agentId,
              resolveThreadBindingTtlMs(event.flags.ttlHours), now))
  /\ UNCHANGED now
  /\ UNCHANGED nonHookVars

\* subagent_ended once the unbind has been made
EndedUnbound(event, result) ==
  /\ hookEvents' = hookEvents + 1
  /\ store' = result.st
  /\ hookRet' = [hook |-> "subagent_ended", status |-> "none",
                 removed |-> Len(result.records)]
  /\ endedAny' = endedAny \cup ({Trim(event.targetSessionKey)} \ {<<>>})
  /\ endedSince' = endedSince \cup
       {<<x, AccountFilter(event.accountId)>> : x \in {Trim(event.targetSessionKey)} \ {<<>>}}
  /\ IF result.records # <<>>
     THEN persistBindings /\ AwaitPersist("subagent_ended")
     ELSE UNCHANGED persistVars
  /\ UNCHANGED reboundFrom

subagent_ended(event) ==
  /\ hookEvents < MaxHookEvents
  /\ IF event.targetKind # "subagent"
     THEN /\ hookRet' = [hook |-> "subagent_ended", status |-> "ignored"]
          /\ UNCHANGED <<store, hookEvents, endedAny, endedSince, reboundFrom, persistVars>>
     ELSE EndedUnbound(event,
            unbindOpenzaloSubagentSessionByKey(store, event.targetSessionKey,
                                               event.accountId, now))
  /\ UNCHANGED now
  /\ UNCHANGED nonHookVars

\* <<>> stands for the handler returning nothing
DeliveryOrigin(records) ==
  IF records = <<>> THEN <<>>
  ELSE <<[channel |-> ChannelOpenzalo, accountId |-> records[1].accountId,
          to |-> records[1].to, threadId |-> records[1].threadId]>>

\* subagent_delivery_target once the binding has been looked up
DeliveryResolved(event, result) ==
  /\ store' = result.st
  /\ hookRet' = [hook |-> "subagent_delivery_target", status |-> "resolved",
                 childSessionKey |-> Trim(event.childSessionKey),
                 accountId |-> IF event.accountId = <<>> THEN <<>>
                               ELSE normalizeAccountId(event.accountId),
                 origin |-> DeliveryOrigin(result.records)]

subagent_delivery_target(event) ==
  /\ IF \/ ~event.expectsCompletionMessage
        \/ Trim(ToLowerCase(event.channel)) # ChannelOpenzalo
     THEN /\ hookRet' = [hook |-> "subagent_delivery_target", status |-> "none"]
          /\ UNCHANGED store
     ELSE DeliveryResolved(event,
            resolveOpenzaloBoundOriginBySession(store, event.childSessionKey,
                                                event.accountId, now))
  /\ UNCHANGED <<now, hookEvents, endedAny, endedSince, reboundFrom, persistVars>>
  /\ UNCHANGED nonHookVars

\* the promise chain reaches this persist: persistBindingsToDisk starts and
\* asks for the file lock
PersistStarts(i) ==
  /\ persistState[i] = "queued"
  /\ PreviousSettled(i)
  /\ persistState' = [persistState EXCEPT ![i] = "locking"]
  /\ UNCHANGED <<now, store, hookRet, hookEvents, endedAny, endedSince, reboundFrom,
                 persistPayload, persistOk, persistCount, persistAwait, diskFile>>
  /\ UNCHANGED nonHookVars

\* the lock was obtained and the snapshot has been taken
PersistSnapshot(i, result) ==
  /\ store' = result.st
  /\ persistPayload' = [persistPayload EXCEPT ![i] =
                          [taken |-> TRUE, bindings |-> result.records]]
  /\ persistState' = [persistState EXCEPT ![i] = "writing"]
  /\ UNCHANGED <<persistOk, persistAwait>>

\* withStoreFileLock either runs the callback, which takes the snapshot, or
\* throws the lock timeout, which persistBindingsToDisk logs and swallows
PersistLocks(i, locked) ==
  /\ persistState[i] = "locking"
  /\ IF locked
     THEN PersistSnapshot(i, snapshotOpenzaloSubagentBindings(store, now))
     ELSE /\ persistState' = [persistState EXCEPT ![i] = "done"]
          /\ PersistSettles(i, FALSE)
          /\ UNCHANGED <<store, persistPayload, persistOk>>
  /\ UNCHANGED <<now, hookRet, hookEvents, endedAny, endedSince, reboundFrom,
                 persistCount, diskFile>>
  /\ UNCHANGED nonHookVars

\* writeJsonFileAtomically: the rename puts the whole payload in place, or
\* the write throws and the file is left as it was
PersistWrites(i, ok) ==
  /\ persistState[i] = "writing"
  /\ persistState' = [persistState EXCEPT ![i] = "done"]
  /\ persistOk' = [persistOk EXCEPT ![i] = ok]
  /\ PersistSettles(i, ok)
  /\ diskFile' = IF ok THEN [exists |-> TRUE, bindings |-> persistPayload[i].bindings]
                 ELSE diskFile
  /\ UNCHANGED <<now, store, hookRet, hookEvents, endedAny, endedSince, reboundFrom,
                 persistPayload, persistCount>>
  /\ UNCHANGED nonHookVars

\* time passes for the hooks; the last result has been consumed by then
HookTick ==
  /\ now < MaxHookTime
  /\ now' = now + 1
  /\ hookRet' = NoHookRet
  /\ UNCHANGED <<store, hookEvents, endedAny, endedSince, reboundFrom, persistVars>>
  /\ UNCHANGED nonHookVars

\* registerOpenzaloSubagentHooks with no bindings file on disk: the store is
\* empty and persistQueue is a resolved promise
HookInit ==
  /\ hookRet = NoHookRet
  /\ hookEvents = 0
  /\ endedAny = {}
  /\ endedSince = {}
  /\ reboundFrom = {}
  /\ persistState = [i \in PersistIds |-> "none"]
  /\ persistPayload = [i \in PersistIds |-> NoPayload]
  /\ persistOk = [i \in PersistIds |-> FALSE]
  /\ persistCount = 0
  /\ persistAwait = [i \in PersistIds |-> NoAwait]
  /\ diskFile = NoDiskFile

vars ==
  <<now, ledgerVars, debounceVars, storeVars, lockVars, hookVars, fnVars, extraVars>>

\* ------------------------------------------- functions studied on their own
MaxBatch == 3

NoFnOut == [done |-> FALSE]

RECURSIVE SeqsUpTo(_, _)
SeqsUpTo(S, n) ==
  IF n = 0 THEN {<<>>}
  ELSE SeqsUpTo(S, n - 1)
         \cup {Append(q, x) : q \in {r \in SeqsUpTo(S, n - 1) : Len(r) = n - 1}, x \in S}

BatchTexts ==
  { <<"h">>, <<" ", "h">>, <<"/", "s">>, <<"@", "x">>, <<"@", " ">>, <<>> }

\* the texts of the entries of one flushed batch
BatchInputs == SeqsUpTo(BatchTexts, MaxBatch) \ {<<>>}

MessageOfText(text) == InboundMessage(TRUE, <<"7">>, <<"1">>, text)

\* onFlush builds the message it dispatches from the entries of the batch
CombineBatch ==
  /\ ~fnOut.done
  /\ fnOut' = [done |-> TRUE,
               text |-> combineDebouncedInbound(
                          [i \in 1..Len(fnIn) |-> MessageOfText(fnIn[i])]).text]
  /\ UNCHANGED <<now, fnIn>>
  /\ UNCHANGED nonFnVars

\* entries of one sender in one group that differ in the ids and the quote they carry
IdentityMessage(messageId, msgId, cliMsgId, quote, raw) ==
  [InboundMessage(TRUE, <<"7">>, <<"1">>, <<"h">>) EXCEPT
     !.messageId = messageId, !.msgId = msgId, !.cliMsgId = cliMsgId,
     !.quoteMsgId = quote[1], !.quoteCliMsgId = quote[2], !.quoteSender = quote[3],
     !.quoteText = quote[4], !.raw = raw]

IdentityMessages ==
  { IdentityMessage(<<"i0">>, <<>>, <<>>, << <<>>, <<>>, <<>>, <<>> >>, <<"r0">>),
    IdentityMessage(<<"m1">>, <<"m1">>, <<>>, << <<>>, <<>>, <<>>, <<"t1">> >>, <<"r1">>),
    IdentityMessage(<<"c2">>, <<>>, <<"c2">>, << <<"q2">>, <<>>, <<"s2">>, <<>> >>, <<"r2">>),
    IdentityMessage(<<"m3">>, <<"m3">>, <<"c3">>,
                    << <<>>, <<"k3">>, <<"s3">>, <<"t3">> >>, <<"r3">>),
    IdentityMessage(<<"i4">>, <<>>, <<>>, << <<"q4">>, <<"k4">>, <<>>, <<>> >>, <<"r4">>) }

\* the entries of one flushed batch, in arrival order
IdentityInputs == SeqsUpTo(IdentityMessages, MaxBatch) \ {<<>>}

\* onFlush: the message dispatched for the batch
CombineIdentity ==
  /\ ~fnOut.done
  /\ fnOut' = [done |-> TRUE, message |-> combineDebouncedInbound(fnIn)]
  /\ UNCHANGED <<now, fnIn>>
  /\ UNCHANGED nonFnVars

\* inbound messages of two groups and a direct chat; ids are whatever string the
\* payload carries, trimmed by the normalisation or not yet
KeyMessages ==
  { InboundMessage(TRUE,  <<"7">>,           <<"1">>,           <<"h">>),
    InboundMessage(TRUE,  <<"7", " ">>,      <<" ", "1">>,      <<"y">>),
    InboundMessage(TRUE,  <<"7">>,           <<"2">>,           <<"h">>),
    InboundMessage(FALSE, <<"7">>,           <<"1">>,           <<"h">>),
    InboundMessage(TRUE,  <<"7", ":", "1">>, <<"2">>,           <<"h">>),
    InboundMessage(TRUE,  <<"7">>,           <<"1", ":", "2">>, <<"h">>) }

KeyAccounts == { <<"a">>, <<"b">> }

\* two inbound entries, each with the account of the monitor that received it
KeyInputs ==
  {<< [accountId |-> a1, message |-> m1], [accountId |-> a2, message |-> m2] >> :
     a1 \in KeyAccounts, a2 \in KeyAccounts, m1 \in KeyMessages, m2 \in KeyMessages}

\* enqueue computes the key of each entry
BuildKeys ==
  /\ ~fnOut.done
  /\ fnOut' = [done |-> TRUE,
               keys |-> [i \in 1..Len(fnIn) |->
                           buildOpenzaloDebounceKey(fnIn[i].accountId, fnIn[i].message)]]
  /\ UNCHANGED <<now, fnIn>>
  /\ UNCHANGED nonFnVars

\* raw records of a persisted file: two valid ones, and one for each way
\* of being refused
RestoreItems ==
  { RawRecord(DEFAULT_ACCOUNT_ID, <<"g", "-", "1">>, <<"a">>, <<"x">>,
              Undef, Num(1), Num(1), Undef),
    RawRecord(<<"W">>, <<"u", ":", "1">>, <<"b">>, <<"x">>, Undef, Undef, Undef, Num(3)),
    RawRecord(DEFAULT_ACCOUNT_ID, <<" ", " ">>, <<"b">>, <<"x">>,
              Undef, Undef, Undef, Undef),
    RawRecord(DEFAULT_ACCOUNT_ID, TargetNoId, <<"b">>, <<"x">>,
              Undef, Undef, Undef, Undef),
    RawRecord(DEFAULT_ACCOUNT_ID, <<"g", "-", "2">>, <<" ">>, <<"x">>,
              Undef, Undef, Undef, Undef),
    RawRecord(DEFAULT_ACCOUNT_ID, <<"g", "-", "2">>, <<"b">>, <<>>,
              Undef, Undef, Undef, Undef),
    RawRecord(DEFAULT_ACCOUNT_ID, <<"u", ":", "1">>, <<"b">>, <<"x">>,
              Undef, Undef, Undef, Num(1)) }

MaxRestoreLen == 2

RestoreLists ==
  {RawArray(items) : items \in SeqsUpTo(RestoreItems, MaxRestoreLen)}
    \cup {NotAnArray}

\* the binds that fill the store before the file is loaded
RestoreBinds == {in \in BindInputs : in[2] \in {TargetGroup1, TargetDm1} /\ in[5] = Undef}

\* everything but the function under study
\* --------------------------------------------------- message reference cache
\* CACHE_TTL_MS and CACHE_MAX, scaled down
CACHE_TTL_MS == 1

CACHE_MAX == 2

MaxCacheOps == 3
MaxCacheTime == 3

EmptyIndex == [k \in {} |-> <<>>]

\* Map.get: <<>> stands for undefined
IndexGet(index, k) == IF k \in DOMAIN index THEN index[k] ELSE <<>>

IndexSet(index, k, v) ==
  [x \in DOMAIN index \cup {k} |-> IF x = k THEN v ELSE index[x]]

IndexDelete(index, k) == [x \in DOMAIN index \ {k} |-> index[x]]

EmptyCache ==
  [byKey |-> <<>>, byMsgId |-> EmptyIndex, byCliMsgId |-> EmptyIndex,
   byShortId |-> EmptyIndex, latestByThread |-> EmptyIndex, shortIdCounter |-> 0]

\* null, as rememberOpenzaloMessage and getLatestOpenzaloMessageForThread return it
NoEntry ==
  [accountId |-> <<>>, threadId |-> <<>>, isGroup |-> FALSE, msgId |-> <<>>,
   cliMsgId |-> <<>>, shortId |-> <<>>, timestamp |-> 0]

\* {}: a reference with neither id
NoRef == [msgId |-> <<>>, cliMsgId |-> <<>>, shortId |-> <<>>]

DigitChars == <<"0", "1", "2", "3", "4", "5", "6", "7", "8", "9">>

\* String(n) of a non-negative integer
RECURSIVE NumToString(_)
NumToString(n) ==
  IF n < 10 THEN <<DigitChars[n + 1]>>
  ELSE NumToString(n \div 10) \o <<DigitChars[(n % 10) + 1]>>

\* normalizeOpenzaloId of a string value
normalizeOpenzaloId(value) == Trim(value)

\* the mutated makeScopedId: the account is left out of the index key
makeScopedIdUnscoped(accountId, id) == id

makeScopedId(accountId, id) == accountId \o <<":">> \o id

makeThreadKey(accountId, threadId, isGroup) ==
  accountId \o <<":">>
    \o (IF isGroup THEN <<"g", "r", "o", "u", "p">> ELSE <<"d", "m">>)
    \o <<":">> \o threadId

makeCacheKey(accountId, threadId, msgId, cliMsgId) ==
  accountId \o <<":">> \o threadId
    \o <<":">> \o (IF msgId # <<>> THEN msgId ELSE <<"_">>)
    \o <<":">> \o (IF cliMsgId # <<>> THEN cliMsgId ELSE <<"_">>)

\* the key an entry is stored under in cacheByKey
CacheKeyOf(entry) ==
  makeCacheKey(entry.accountId, entry.threadId, entry.msgId, entry.cliMsgId)

\* no entry is ever found under a cache key
getEntryByCacheKeyNone(c, cacheKey) == NoEntry

getEntryByCacheKey(c, cacheKey) ==
  IF cacheKey = <<>> THEN NoEntry
  ELSE IF \E i \in 1..Len(c.byKey) : CacheKeyOf(c.byKey[i]) = cacheKey
  THEN c.byKey[CHOOSE i \in 1..Len(c.byKey) : CacheKeyOf(c.byKey[i]) = cacheKey]
  ELSE NoEntry

\* what both loops of pruneExpired do with an entry they drop
DropEntry(c, entry) ==
  [c EXCEPT
     !.byKey = SelectSeq(@, LAMBDA e : CacheKeyOf(e) # CacheKeyOf(entry)),
     !.byMsgId = IF entry.msgId # <<>>
                 THEN IndexDelete(@, makeScopedId(entry.accountId, entry.msgId))
                 ELSE @,
     !.byCliMsgId = IF entry.cliMsgId # <<>>
                    THEN IndexDelete(@, makeScopedId(entry.accountId, entry.cliMsgId))
                    ELSE @,
     !.byShortId = IndexDelete(@, makeScopedId(entry.accountId, entry.shortId))]

\* the for loop of pruneExpired over the entries cacheByKey held when it began
RECURSIVE PruneTtl(_, _, _)
PruneTtl(c, entries, cutoff) ==
  IF entries = <<>> THEN c
  ELSE IF Head(entries).timestamp >= cutoff
  THEN PruneTtl(c, Tail(entries), cutoff)
  ELSE PruneTtl(DropEntry(c, Head(entries)), Tail(entries), cutoff)

\* the mutated while loop: the newest entry goes first
RECURSIVE EvictOverCapNewest(_)
EvictOverCapNewest(c) ==
  IF Len(c.byKey) > CACHE_MAX
  THEN EvictOverCapNewest(DropEntry(c, c.byKey[Len(c.byKey)]))
  ELSE c

\* the while loop of pruneExpired
RECURSIVE EvictOverCap(_)
EvictOverCap(c) ==
  IF Len(c.byKey) > CACHE_MAX
  THEN EvictOverCap(DropEntry(c, c.byKey[1]))
  ELSE c

pruneExpired(c, at) == EvictOverCap(PruneTtl(c, c.byKey, at - CACHE_TTL_MS))

\* 0-based index of the first ch at or after position i (1-based), -1 if none
RECURSIVE IndexOfChar(_, _, _)
IndexOfChar(s, ch, i) ==
  IF i > Len(s) THEN -1
  ELSE IF s[i] = ch THEN i - 1
  ELSE IndexOfChar(s, ch, i + 1)

\* null is NoRef
splitFullId(raw) ==
  LET trimmed == Trim(raw)
      separatorIndex == IndexOfChar(trimmed, ":", 1)
  IN IF trimmed = <<>> THEN NoRef
     ELSE IF separatorIndex <= 0 \/ separatorIndex >= Len(trimmed) - 1 THEN NoRef
     ELSE LET msgId == Trim(SubSeq(trimmed, 1, separatorIndex))
              cliMsgId == Trim(SubSeq(trimmed, separatorIndex + 2, Len(trimmed)))
          IN IF msgId = <<>> \/ cliMsgId = <<>> THEN NoRef
             ELSE [msgId |-> msgId, cliMsgId |-> cliMsgId, shortId |-> <<>>]

\* /^\d{1,6}$/
IsShortNumeric(rawId) ==
  /\ Len(rawId) \in 1..6
  /\ \A i \in 1..Len(rawId) : IsDigit(rawId[i])

RefOf(entry) ==
  [msgId |-> entry.msgId, cliMsgId |-> entry.cliMsgId, shortId |-> entry.shortId]

\* rememberOpenzaloMessage after its pruneExpired(): p is the pruned cache
RememberPruned(p, accountId, threadId, isGroup, msgId, cliMsgId, timestamp, at) ==
  LET cacheKey == makeCacheKey(accountId, threadId, msgId, cliMsgId)
      existing == getEntryByCacheKey(p, cacheKey)
      fresh == existing.shortId = <<>>
      shortId == IF fresh THEN NumToString(p.shortIdCounter + 1) ELSE existing.shortId
      entry == [accountId |-> accountId, threadId |-> threadId, isGroup |-> isGroup,
                msgId |-> msgId, cliMsgId |-> cliMsgId, shortId |-> shortId,
                timestamp |-> IF timestamp.def /\ timestamp.val > 0
                              THEN timestamp.val ELSE at]
  IN [c |->
        [byKey |-> Append(SelectSeq(p.byKey, LAMBDA e : CacheKeyOf(e) # cacheKey),
                          entry),
         byShortId |-> IndexSet(p.byShortId, makeScopedId(accountId, shortId), cacheKey),
         byMsgId |-> IF msgId # <<>>
                     THEN IndexSet(p.byMsgId, makeScopedId(accountId, msgId), cacheKey)
                     ELSE p.byMsgId,
         byCliMsgId |-> IF cliMsgId # <<>>
                        THEN IndexSet(p.byCliMsgId, makeScopedId(accountId, cliMsgId),
                                      cacheKey)
                        ELSE p.byCliMsgId,
         latestByThread |-> IndexSet(p.latestByThread,
                                     makeThreadKey(accountId, threadId, isGroup),
                                     cacheKey),
         shortIdCounter |-> IF fresh THEN p.shortIdCounter + 1 ELSE p.shortIdCounter],
      entry |-> entry]

\* params is <<accountId, threadId, isGroup, msgId, cliMsgId, timestamp>>
rememberOpenzaloMessage(c, params, at) ==
  LET accountId == Trim(params[1])
      threadId == Trim(params[2])
      isGroup == params[3]
      msgId == normalizeOpenzaloId(params[4])
      cliMsgId == normalizeOpenzaloId(params[5])
      timestamp == params[6]
  IN IF accountId = <<>> \/ threadId = <<>> \/ (msgId = <<>> /\ cliMsgId = <<>>)
     THEN [c |-> c, entry |-> NoEntry]
     ELSE RememberPruned(pruneExpired(c, at), accountId, threadId, isGroup, msgId,
                         cliMsgId, timestamp, at)

\* getLatestOpenzaloMessageForThread after its pruneExpired()
LatestPruned(p, accountId, threadId, isGroup) ==
  [c |-> p,
   entry |-> getEntryByCacheKey(
               p, IndexGet(p.latestByThread,
                           makeThreadKey(accountId, threadId, isGroup)))]

getLatestOpenzaloMessageForThread(c, accountIdRaw, threadIdRaw, isGroup, at) ==
  LatestPruned(pruneExpired(c, at), Trim(accountIdRaw), Trim(threadIdRaw), isGroup)

\* resolveOpenzaloMessageRef after its pruneExpired() and the blank and pair tests
ResolvePruned(p, accountId, rawId) ==
  LET byShort == IF IsShortNumeric(rawId)
                 THEN getEntryByCacheKey(
                        p, IndexGet(p.byShortId, makeScopedId(accountId, rawId)))
                 ELSE NoEntry
      byMsg == getEntryByCacheKey(
                 p, IndexGet(p.byMsgId, makeScopedId(accountId, rawId)))
      byCli == getEntryByCacheKey(
                 p, IndexGet(p.byCliMsgId, makeScopedId(accountId, rawId)))
  IN IF byShort # NoEntry THEN RefOf(byShort)
     ELSE IF byMsg # NoEntry THEN RefOf(byMsg)
     ELSE IF byCli # NoEntry THEN RefOf(byCli)
     ELSE [msgId |-> rawId, cliMsgId |-> <<>>, shortId |-> <<>>]

resolveOpenzaloMessageRef(c, accountIdRaw, rawIdRaw, at) ==
  LET accountId == Trim(accountIdRaw)
      rawId == Trim(rawIdRaw)
      fromPair == splitFullId(rawId)
  IN [c |-> pruneExpired(c, at),
      ref |-> IF accountId = <<>> \/ rawId = <<>> THEN NoRef
              ELSE IF fromPair # NoRef THEN fromPair
              ELSE ResolvePruned(pruneExpired(c, at), accountId, rawId)]

AccountA == <<"a">>

AccountB == <<"b">>

ThreadT == <<"t">>

ThreadU == <<"u">>

\* <<accountId, threadId, isGroup, msgId, cliMsgId, timestamp>> of a remember call
RememberInputs ==
  { <<AccountA, ThreadT, TRUE, <<"x">>, <<>>, Undef>>,
    <<<<"a", " ">>, ThreadT, TRUE, <<"x">>, <<"y">>, Undef>>,
    <<AccountA, ThreadT, FALSE, <<"x">>, <<"y">>, Undef>>,
    <<AccountA, ThreadU, TRUE, <<"1">>, <<>>, Undef>>,
    <<AccountA, ThreadU, TRUE, <<>>, <<"y">>, Num(1)>>,
    <<AccountB, ThreadT, TRUE, <<"x">>, <<"y">>, Undef>>,
    <<AccountA, <<" ">>, TRUE, <<"x">>, <<>>, Undef>> }

RawIds ==
  { <<"1">>, <<"2">>, <<"3">>, <<"x">>, <<" ", "y">>, <<"x", ":", "y">> }

NoCacheRet ==
  [op |-> "none", accountId |-> <<>>, threadId |-> <<>>, isGroup |-> FALSE,
   rawId |-> <<>>, entry |-> NoEntry, ref |-> NoRef,
   soloEntry |-> NoEntry, soloRef |-> NoRef]

CacheInit ==
  /\ cache = EmptyCache
  /\ cacheSolo = EmptyCache
  /\ latestCall = EmptyIndex
  /\ latestById = EmptyIndex
  /\ cacheRet = NoCacheRet
  /\ cacheOps = 0

\* the triple a remember call or a getLatest call is about
TripleOf(accountIdRaw, threadIdRaw, isGroup) ==
  <<Trim(accountIdRaw), Trim(threadIdRaw), isGroup>>

\* the ids of a remembered entry, as keys of latestById
IdKeysOf(entry) ==
  (IF entry.msgId # <<>> THEN {<<"msgId", entry.accountId, entry.msgId>>} ELSE {})
    \cup (IF entry.cliMsgId # <<>>
          THEN {<<"cliMsgId", entry.accountId, entry.cliMsgId>>} ELSE {})

LatestByIdAfter(entry) ==
  [k \in DOMAIN latestById \cup IdKeysOf(entry) |->
     IF k \in IdKeysOf(entry) THEN entry ELSE latestById[k]]

RememberDone(in, r, solo) ==
  /\ cache' = r.c
  /\ latestById' = IF r.entry # NoEntry THEN LatestByIdAfter(r.entry) ELSE latestById
  /\ cacheSolo' = solo
  /\ latestCall' = IF r.entry # NoEntry
                   THEN IndexSet(latestCall, TripleOf(in[1], in[2], in[3]), r.entry)
                   ELSE latestCall
  /\ cacheRet' = [NoCacheRet EXCEPT !.op = "remember", !.accountId = in[1],
                                    !.threadId = in[2], !.isGroup = in[3],
                                    !.entry = r.entry]
  /\ cacheOps' = cacheOps + 1
  /\ UNCHANGED <<now, nonCacheVars>>

Remember(in) ==
  /\ cacheOps < MaxCacheOps
  /\ RememberDone(
       in,
       rememberOpenzaloMessage(cache, in, now),
       IF Trim(in[1]) = AccountB THEN cacheSolo
       ELSE rememberOpenzaloMessage(cacheSolo, in, now).c)

ResolveDone(accountId, rawId, r, solo) ==
  /\ cache' = r.c
  /\ cacheSolo' = solo.c
  /\ cacheRet' = [NoCacheRet EXCEPT !.op = "resolve", !.accountId = accountId,
                                    !.rawId = rawId, !.ref = r.ref,
                                    !.soloRef = solo.ref]
  /\ UNCHANGED <<now, latestCall, latestById, cacheOps, nonCacheVars>>

Resolve(accountId, rawId) ==
  ResolveDone(accountId, rawId,
              resolveOpenzaloMessageRef(cache, accountId, rawId, now),
              resolveOpenzaloMessageRef(cacheSolo, accountId, rawId, now))

GetLatestDone(accountId, threadId, isGroup, r, solo) ==
  /\ cache' = r.c
  /\ cacheSolo' = solo.c
  /\ cacheRet' = [NoCacheRet EXCEPT !.op = "getLatest", !.accountId = accountId,
                                    !.threadId = threadId, !.isGroup = isGroup,
                                    !.entry = r.entry, !.soloEntry = solo.entry]
  /\ UNCHANGED <<now, latestCall, latestById, cacheOps, nonCacheVars>>

GetLatest(accountId, threadId, isGroup) ==
  GetLatestDone(accountId, threadId, isGroup,
                getLatestOpenzaloMessageForThread(cache, accountId, threadId, isGroup,
                                                  now),
                getLatestOpenzaloMessageForThread(cacheSolo, accountId, threadId,
                                                  isGroup, now))

\* remember calls of four different messages of two accounts
ShortIdInputs ==
  { <<AccountA, ThreadT, TRUE, <<"x">>, <<>>, Undef>>,
    <<AccountA, ThreadT, FALSE, <<"x">>, <<"y">>, Undef>>,
    <<AccountA, ThreadU, TRUE, <<>>, <<"y">>, Num(1)>>,
    <<AccountB, ThreadT, TRUE, <<"x">>, <<"y">>, Undef>> }

MaxShortIdOps == 4

\* the remember calls of a longer run than that of Remember
RememberNext(in) ==
  /\ cacheOps < MaxShortIdOps
  /\ RememberDone(
       in,
       rememberOpenzaloMessage(cache, in, now),
       IF Trim(in[1]) = AccountB THEN cacheSolo
       ELSE rememberOpenzaloMessage(cacheSolo, in, now).c)

CacheTick ==
  /\ now < MaxCacheTime
  /\ now' = now + 1
  /\ cacheRet' = NoCacheRet
  /\ UNCHANGED <<cache, cacheSolo, latestCall, latestById, cacheOps, nonCacheVars>>

NextCache ==
  \/ \E in \in RememberInputs : Remember(in)
  \/ \E accountId \in {AccountA, AccountB}, rawId \in RawIds :
       Resolve(accountId, rawId)
  \/ \E accountId \in {AccountA, AccountB}, threadId \in {ThreadT, ThreadU},
        isGroup \in BOOLEAN : GetLatest(accountId, threadId, isGroup)
  \/ CacheTick

\* ------------------------------------------------------ pending group history
\* DEFAULT_OPENZALO_PENDING_GROUP_HISTORY_TTL_MS and
\* MAX_OPENZALO_PENDING_GROUP_HISTORY_KEYS, scaled down
DEFAULT_OPENZALO_PENDING_GROUP_HISTORY_TTL_MS == 2

MAX_OPENZALO_PENDING_GROUP_HISTORY_KEYS == 2

MaxHistoryOps == 3
MaxHistoryTime == 3

\* a timestamp that is not finite (NaN): such an entry never expires
NotFinite == Undef

buildOpenzaloPendingGroupHistoryKey(accountId, threadId) ==
  accountId \o <<":">> \o threadId

\* pendingGroupHistories as the list of <<key, entries>> in insertion order
HistoryKeys(h) == [i \in 1..Len(h) |-> h[i].key]

HistoryHas(h, historyKey) == \E i \in 1..Len(h) : h[i].key = historyKey

\* pendingGroupHistories.get(historyKey) ?? []
HistoryGet(h, historyKey) ==
  IF HistoryHas(h, historyKey)
  THEN h[CHOOSE i \in 1..Len(h) : h[i].key = historyKey].entries
  ELSE <<>>

HistoryDelete(h, historyKey) == SelectSeq(h, LAMBDA kv : kv.key # historyKey)

\* the filter of pruneExpiredEntries
IsFresh(entry, nowMs, ttlMs) ==
  IF ~entry.timestamp.def THEN TRUE
  ELSE nowMs - entry.timestamp.val <= ttlMs

FreshEntries(entries, nowMs, ttlMs) ==
  SelectSeq(entries, LAMBDA entry : IsFresh(entry, nowMs, ttlMs))

\* the for loop of pruneExpiredEntries
RECURSIVE PruneKeys(_, _, _)
PruneKeys(h, nowMs, ttlMs) ==
  IF h = <<>> THEN <<>>
  ELSE IF FreshEntries(Head(h).entries, nowMs, ttlMs) = <<>>
  THEN PruneKeys(Tail(h), nowMs, ttlMs)
  ELSE <<[key |-> Head(h).key,
          entries |-> FreshEntries(Head(h).entries, nowMs, ttlMs)]>>
         \o PruneKeys(Tail(h), nowMs, ttlMs)

\* params.ttlMs ?? the default
EffectiveTtl(ttlMs) ==
  IF ttlMs.def THEN ttlMs.val ELSE DEFAULT_OPENZALO_PENDING_GROUP_HISTORY_TTL_MS

\* the mutated pruning: only the key of the call is pruned
pruneExpiredEntriesTargetOnly(h, historyKey, nowMs, ttlMs) ==
  IF EffectiveTtl(ttlMs) <= 0 THEN <<>>
  ELSE PruneKeys(SelectSeq(h, LAMBDA kv : kv.key = historyKey), nowMs,
                 EffectiveTtl(ttlMs))
         \o SelectSeq(h, LAMBDA kv : kv.key # historyKey)

\* historyKey is the key of the call; the pruning itself does not look at it
pruneExpiredEntries(h, historyKey, nowMs, ttlMs) ==
  IF EffectiveTtl(ttlMs) <= 0 THEN <<>>
  ELSE PruneKeys(h, nowMs, EffectiveTtl(ttlMs))

\* the for loop of evictOldHistoryKeys over the first keysToDelete keys
RECURSIVE DeleteFirstKeys(_, _)
DeleteFirstKeys(h, keysToDelete) ==
  IF keysToDelete = 0 \/ h = <<>> THEN h
  ELSE IF Head(h).key # <<>>
  THEN DeleteFirstKeys(Tail(h), keysToDelete - 1)
  ELSE <<Head(h)>> \o DeleteFirstKeys(Tail(h), keysToDelete - 1)

\* the mutated eviction: the keys inserted last are the ones deleted
evictOldHistoryKeysNewest(h, maxKeys) ==
  IF Len(h) <= maxKeys THEN h ELSE SubSeq(h, 1, maxKeys)

evictOldHistoryKeys(h, maxKeys) ==
  IF Len(h) <= maxKeys THEN h
  ELSE DeleteFirstKeys(h, Len(h) - maxKeys)

\* the mutated trim: history.pop() in place of history.shift()
RECURSIVE TrimToLimitNewestFirst(_, _)
TrimToLimitNewestFirst(history, limit) ==
  IF Len(history) > limit
  THEN TrimToLimitNewestFirst(SubSeq(history, 1, Len(history) - 1), limit)
  ELSE history

\* while (history.length > limit) history.shift()
RECURSIVE TrimToLimit(_, _)
TrimToLimit(history, limit) ==
  IF Len(history) > limit THEN TrimToLimit(Tail(history), limit) ELSE history

\* a limit of 0 or less empties the history of the key
AppendPrunedClearsKey(p, historyKey, entry, limit) ==
  IF limit <= 0 THEN [h |-> HistoryDelete(p, historyKey), entries |-> <<>>]
  ELSE [h |-> evictOldHistoryKeys(
                Append(HistoryDelete(p, historyKey),
                       [key |-> historyKey,
                        entries |-> TrimToLimit(
                                      Append(HistoryGet(p, historyKey), entry),
                                      limit)]),
                MAX_OPENZALO_PENDING_GROUP_HISTORY_KEYS),
        entries |-> TrimToLimit(Append(HistoryGet(p, historyKey), entry), limit)]

\* appendOpenzaloPendingGroupHistoryEntry after its pruning: p is the pruned map
AppendPruned(p, historyKey, entry, limit) ==
  IF limit <= 0 THEN [h |-> p, entries |-> <<>>]
  ELSE [h |-> evictOldHistoryKeys(
                Append(HistoryDelete(p, historyKey),
                       [key |-> historyKey,
                        entries |-> TrimToLimit(
                                      Append(HistoryGet(p, historyKey), entry),
                                      limit)]),
                MAX_OPENZALO_PENDING_GROUP_HISTORY_KEYS),
        entries |-> TrimToLimit(Append(HistoryGet(p, historyKey), entry), limit)]

appendOpenzaloPendingGroupHistoryEntry(h, historyKey, entry, limit, nowMs, ttlMs) ==
  AppendPruned(pruneExpiredEntries(h, historyKey, nowMs, ttlMs), historyKey, entry,
               limit)

ReadPruned(p, historyKey) == [h |-> p, entries |-> HistoryGet(p, historyKey)]

readOpenzaloPendingGroupHistoryEntries(h, historyKey, nowMs, ttlMs) ==
  ReadPruned(pruneExpiredEntries(h, historyKey, nowMs, ttlMs), historyKey)

clearOpenzaloPendingGroupHistory(h, historyKey) == HistoryDelete(h, historyKey)

HistoryKeySet ==
  { buildOpenzaloPendingGroupHistoryKey(<<"d">>, threadId) :
      threadId \in {<<"1">>, <<"2">>, <<"3">>} }

HistoryLimits == {0, 1, 2}

HistoryTtls == {Undef, Num(0), Num(1)}

NoHistoryRet ==
  [op |-> "none", historyKey |-> <<>>, limit |-> 0, ttlMs |-> Undef,
   entry |-> [id |-> 0, timestamp |-> NotFinite], entries |-> <<>>,
   before |-> <<>>]

HistoryInit ==
  /\ histories = <<>>
  /\ historyRet = NoHistoryRet
  /\ historyOps = 0

\* the timestamp of an appended entry: now, one tick earlier, or not finite
EntryTimestamps == {Num(now), Num(now - 1), NotFinite}

AppendDone(historyKey, entry, limit, ttlMs, r) ==
  /\ histories' = r.h
  /\ historyRet' = [op |-> "append", historyKey |-> historyKey, limit |-> limit,
                    ttlMs |-> ttlMs, entry |-> entry, entries |-> r.entries,
                    before |-> histories]
  /\ historyOps' = historyOps + 1
  /\ UNCHANGED <<now, nonHistoryVars>>

AppendHistory(historyKey, timestamp, limit, ttlMs) ==
  /\ historyOps < MaxHistoryOps
  /\ AppendDone(historyKey, [id |-> historyOps + 1, timestamp |-> timestamp], limit,
                ttlMs,
                appendOpenzaloPendingGroupHistoryEntry(
                  histories, historyKey,
                  [id |-> historyOps + 1, timestamp |-> timestamp], limit, now, ttlMs))

ReadDone(historyKey, ttlMs, r) ==
  /\ histories' = r.h
  /\ historyRet' = [NoHistoryRet EXCEPT !.op = "read", !.historyKey = historyKey,
                                        !.ttlMs = ttlMs, !.entries = r.entries,
                                        !.before = histories]
  /\ UNCHANGED <<now, historyOps, nonHistoryVars>>

ReadHistory(historyKey, ttlMs) ==
  ReadDone(historyKey, ttlMs,
           readOpenzaloPendingGroupHistoryEntries(histories, historyKey, now, ttlMs))

ClearHistory(historyKey) ==
  /\ histories' = clearOpenzaloPendingGroupHistory(histories, historyKey)
  /\ historyRet' = [NoHistoryRet EXCEPT !.op = "clear", !.historyKey = historyKey,
                                        !.before = histories]
  /\ UNCHANGED <<now, historyOps, nonHistoryVars>>

HistoryTick ==
  /\ now < MaxHistoryTime
  /\ now' = now + 1
  /\ historyRet' = NoHistoryRet
  /\ UNCHANGED <<histories, historyOps, nonHistoryVars>>

NextHistory ==
  \/ \E historyKey \in HistoryKeySet, timestamp \in EntryTimestamps,
        limit \in HistoryLimits, ttlMs \in HistoryTtls :
       AppendHistory(historyKey, timestamp, limit, ttlMs)
  \/ \E historyKey \in HistoryKeySet, ttlMs \in HistoryTtls :
       ReadHistory(historyKey, ttlMs)
  \/ \E historyKey \in HistoryKeySet : ClearHistory(historyKey)
  \/ HistoryTick

\* ------------------------------------------------------ openzca readiness poll
\* OPENZALO_READY_TIMEOUT_MS, _POLL_MS, _LOG_AFTER_MS and _LOG_INTERVAL_MS, scaled
OPENZALO_READY_TIMEOUT_MS == 3

OPENZALO_READY_POLL_MS == 1

OPENZALO_READY_LOG_AFTER_MS == 2

OPENZALO_READY_LOG_INTERVAL_MS == 2

MaxReadyTime == 6

\* what a failing "auth status" command reports
CommandErrors == {"not logged in", "exit 1"}

\* waitForOpenzcaReady right after its first lines, called at time startedAt
ReadyEntered(startedAt) ==
  [pc |-> "entered", result |-> "none", startedAt |-> startedAt,
   deadlineAt |-> startedAt + OPENZALO_READY_TIMEOUT_MS,
   nextLogAt |-> startedAt + OPENZALO_READY_LOG_AFTER_MS,
   lastError |-> "unknown error", logs |-> 0, commands |-> 0,
   timer |-> 0, listener |-> FALSE, timerCleared |-> FALSE]

\* monitorOpenzaloProvider has not been called yet
ReadyInit ==
  /\ ready = [ReadyEntered(0) EXCEPT !.pc = "idle"]
  /\ abortSignal = [aborted |-> FALSE, duringPoll |-> FALSE]
  /\ monitor = [pc |-> "idle", listenerStarted |-> FALSE]

\* monitorOpenzaloProvider resumes with what waitForOpenzcaReady settled with
MonitorResumes(result) ==
  monitor' = [monitor EXCEPT !.pc = CASE result = "true" -> "selfId"
                                      [] result = "false" -> "returned"
                                      [] OTHER -> "threw"]

\* waitForOpenzcaReady settles: r is its state, with the result in it
ReadySettles(r) ==
  /\ ready' = [r EXCEPT !.pc = "done"]
  /\ MonitorResumes(r.result)

\* the head of the while loop: leave when aborted, else run "auth status"
LoopHead(r) ==
  IF abortSignal.aborted
  THEN ReadySettles([r EXCEPT !.result = "false"])
  ELSE /\ ready' = [r EXCEPT !.pc = "command", !.commands = @ + 1]
       /\ monitor' = [monitor EXCEPT !.pc = "waiting"]

\* monitorOpenzaloProvider is called and runs up to its first await
MonitorStarts ==
  /\ monitor.pc = "idle"
  /\ now + OPENZALO_READY_TIMEOUT_MS <= MaxReadyTime
  /\ LoopHead(ReadyEntered(now))
  /\ UNCHANGED <<now, abortSignal, nonReadyVars>>

\* the mutated onAbort: the timer is left pending
TimerAfterAbortKept(timer) == timer

\* onAbort: clearTimeout(timer)
TimerAfterAbort(timer) == 0

\* sleepWithAbort(ms, signal) up to its await, called with r the caller's state
SleepStarts(r, ms) ==
  IF ms <= 0 THEN LoopHead(r)
  ELSE IF abortSignal.aborted THEN ReadySettles([r EXCEPT !.result = "false"])
  ELSE /\ ready' = [r EXCEPT !.pc = "sleeping", !.timer = now + ms,
                             !.listener = TRUE]
       /\ UNCHANGED monitor

\* the log line and its next due time
AfterLog(r) ==
  IF now >= r.nextLogAt
  THEN [r EXCEPT !.logs = @ + 1, !.nextLogAt = now + OPENZALO_READY_LOG_INTERVAL_MS]
  ELSE r

\* the loop body after a failed command that was not an abort
AfterFailure(r) ==
  IF now >= r.deadlineAt
  THEN ReadySettles([r EXCEPT !.result = "threw"])
  ELSE SleepStarts(AfterLog(r), OPENZALO_READY_POLL_MS)

\* how runOpenzcaCommand settles: resolved, or rejected with an error text; a
\* command whose signal is aborted is cancelled and rejects
runOpenzcaCommand(aborted) ==
  IF aborted THEN {"aborted"} ELSE {"ok"} \cup CommandErrors

\* the awaited command settles and the loop body runs up to its next await
CommandSettles ==
  /\ ready.pc = "command"
  /\ \E outcome \in runOpenzcaCommand(abortSignal.aborted) :
       IF outcome = "ok" THEN ReadySettles([ready EXCEPT !.result = "true"])
       ELSE IF abortSignal.aborted
       THEN ReadySettles([ready EXCEPT !.result = "false"])
       ELSE AfterFailure([ready EXCEPT !.lastError = outcome])
  /\ UNCHANGED <<now, abortSignal, nonReadyVars>>

\* the timer of sleepWithAbort fires: the listener goes, the loop goes round
SleepTimerFires ==
  /\ ready.pc = "sleeping"
  /\ ready.timer # 0
  /\ now >= ready.timer
  /\ LoopHead([ready EXCEPT !.timer = 0, !.listener = FALSE])
  /\ UNCHANGED <<now, abortSignal, nonReadyVars>>

\* the abort signal fires; a registered onAbort runs and the sleep rejects
AbortFires ==
  /\ ~abortSignal.aborted
  /\ abortSignal' = [aborted |-> TRUE,
                     duringPoll |-> ready.pc \in {"command", "sleeping"}]
  /\ IF ready.listener
     THEN ReadySettles([ready EXCEPT !.timer = TimerAfterAbort(@),
                                     !.listener = FALSE, !.timerCleared = TRUE,
                                     !.result = "false"])
     ELSE UNCHANGED <<ready, monitor>>
  /\ UNCHANGED <<now, nonReadyVars>>

\* "me id" settles either way and the listener is started
SelfIdSettles ==
  /\ monitor.pc = "selfId"
  /\ monitor' = [pc |-> "listening", listenerStarted |-> TRUE]
  /\ UNCHANGED <<now, ready, abortSignal, nonReadyVars>>

ReadyTick ==
  /\ now < MaxReadyTime
  /\ now' = now + 1
  /\ UNCHANGED <<ready, abortSignal, monitor, nonReadyVars>>

NextReady ==
  \/ MonitorStarts
  \/ CommandSettles
  \/ SleepTimerFires
  \/ AbortFires
  \/ SelfIdSettles
  \/ ReadyTick

\* ------------------------------------------------------------ runOpenzca
\* DEFAULT_TIMEOUT and the two delays of triggerTimeout, in clock ticks
DEFAULT_TIMEOUT == 2

SigkillDelayMs == 1

ForceResolveDelayMs == 2

\* options?.timeout
RunTimeouts == {Undef, Num(1)}

\* the code of the close event: null when a signal ended the process
ExitCodes == {Undef, Num(0), Num(1)}

\* what proc.kill does: it returns (signal sent, or the process is gone), it
\* throws (the platform lacks the signal), or it emits the error event of the
\* process (the signal could not be delivered)
KillOutcomes == {"returned", "threw", "error"}

\* a timer variable that is null
NoTimer == [set |-> FALSE, pending |-> FALSE, at |-> 0]

\* setTimeout(callback, ms)
SetTimer(ms) == [set |-> TRUE, pending |-> TRUE, at |-> now + ms]

\* the result of a timeout: close after the timeout, or the force-resolve timer
TimeoutResult == [ok |-> FALSE, exitCode |-> 124]

\* the result of the error event, and of a failed spawn
ErrorResult == [ok |-> FALSE, exitCode |-> 1]

\* the result of a close event before the timeout
CloseResult(code) ==
  [ok |-> code = Num(0), exitCode |-> IF code.def THEN code.val ELSE 1]

RunIdle ==
  [pc |-> "idle", timeout |-> 0, timedOut |-> FALSE, settled |-> FALSE,
   timeoutTimer |-> NoTimer, sigkillTimer |-> NoTimer, forceResolveTimer |-> NoTimer,
   closed |-> FALSE, signals |-> <<>>, results |-> <<>>]

RunInit == run = RunIdle

\* clearTimers: each timer that is set is cleared and its variable nulled
clearTimers(r) ==
  [r EXCEPT !.timeoutTimer = NoTimer, !.sigkillTimer = NoTimer,
            !.forceResolveTimer = NoTimer]

\* resolve(result), together with whether the timeout had fired by then
Resolved(r, result) ==
  [r EXCEPT !.results = Append(@, [result |-> result, timedOut |-> r.timedOut])]

\* the mutated settle: the settled flag is not tested
settleAgain(r, result) ==
  Resolved([clearTimers(r) EXCEPT !.settled = TRUE], result)

\* settle(result)
settle(r, result) ==
  IF r.settled THEN r
  ELSE Resolved([clearTimers(r) EXCEPT !.settled = TRUE], result)

\* proc.kill(signal) inside try/catch; an error event runs the error handler
\* before kill returns
kill(r, signal, outcome) ==
  IF outcome = "error"
  THEN settle([r EXCEPT !.signals = Append(@, signal)], ErrorResult)
  ELSE [r EXCEPT !.signals = Append(@, signal)]

\* the two timers that triggerTimeout sets after its kill
EscalationSet(r) ==
  [r EXCEPT !.sigkillTimer = SetTimer(SigkillDelayMs),
            !.forceResolveTimer = SetTimer(ForceResolveDelayMs)]

\* triggerTimeout
triggerTimeout(r, outcome) ==
  IF r.settled THEN r
  ELSE EscalationSet(kill([r EXCEPT !.timedOut = TRUE], "SIGTERM", outcome))

\* runOpenzca is called: spawnOpenzcaProcess is pending
RunStarts(timeout) ==
  /\ run.pc = "idle"
  /\ now + DEFAULT_TIMEOUT + ForceResolveDelayMs <= MaxRunTime
  /\ run' = [run EXCEPT !.pc = "spawning",
                        !.timeout = IF timeout.def THEN timeout.val ELSE DEFAULT_TIMEOUT]
  /\ UNCHANGED <<now, nonRunVars>>

\* the process has spawned: the timeout timer is set, the handlers are attached
SpawnSucceeds ==
  /\ run.pc = "spawning"
  /\ run' = [run EXCEPT !.pc = "spawned", !.timeoutTimer = SetTimer(run.timeout)]
  /\ UNCHANGED <<now, nonRunVars>>

\* spawnOpenzcaProcess rejects: the catch resolves with the error
SpawnFails ==
  /\ run.pc = "spawning"
  /\ run' = Resolved([run EXCEPT !.pc = "failed"], ErrorResult)
  /\ UNCHANGED <<now, nonRunVars>>

\* a pending timer is due
TimerDue(timer) == timer.pending /\ now >= timer.at

\* the timeout timer fires
TimeoutFires ==
  /\ TimerDue(run.timeoutTimer)
  /\ \E outcome \in KillOutcomes :
       run' = triggerTimeout([run EXCEPT !.timeoutTimer.pending = FALSE], outcome)
  /\ UNCHANGED <<now, nonRunVars>>

\* the SIGKILL timer fires
SigkillFires ==
  /\ TimerDue(run.sigkillTimer)
  /\ \E outcome \in KillOutcomes :
       run' = IF run.settled THEN [run EXCEPT !.sigkillTimer.pending = FALSE]
              ELSE kill([run EXCEPT !.sigkillTimer.pending = FALSE], "SIGKILL", outcome)
  /\ UNCHANGED <<now, nonRunVars>>

\* the force-resolve timer fires
ForceResolveFires ==
  /\ TimerDue(run.forceResolveTimer)
  /\ run' = IF run.settled THEN [run EXCEPT !.forceResolveTimer.pending = FALSE]
            ELSE settle([run EXCEPT !.forceResolveTimer.pending = FALSE], TimeoutResult)
  /\ UNCHANGED <<now, nonRunVars>>

\* the close event of the process
ProcCloses(code) ==
  /\ run.pc = "spawned"
  /\ ~run.closed
  /\ run' = IF run.timedOut THEN settle([run EXCEPT !.closed = TRUE], TimeoutResult)
            ELSE settle([run EXCEPT !.closed = TRUE], CloseResult(code))
  /\ UNCHANGED <<now, nonRunVars>>

\* time passes once the timers that are due have fired; the clock stops early
\* enough for the timers of a call that is still spawning
RunTick ==
  /\ now < MaxRunTime
  /\ run.pc = "spawning" => now + 1 + run.timeout + ForceResolveDelayMs <= MaxRunTime
  /\ ~TimerDue(run.timeoutTimer)
  /\ ~TimerDue(run.sigkillTimer)
  /\ ~TimerDue(run.forceResolveTimer)
  /\ now' = now + 1
  /\ UNCHANGED allButNow

NextRun ==
  \/ \E timeout \in RunTimeouts : RunStarts(timeout)
  \/ SpawnSucceeds
  \/ SpawnFails
  \/ TimeoutFires
  \/ SigkillFires
  \/ ForceResolveFires
  \/ \E code \in ExitCodes : ProcCloses(code)
  \/ RunTick

\* ------------------------------------------------------ probeOpenzaloAuth
\* the default TTL and the size cap of the probe cache, scaled down
PROBE_CACHE_TTL_MS == 2

MAX_PROBE_CACHE_SIZE == 2

\* a ResolvedOpenzaloAccount, as far as the probe reads it
ProbeAccount(accountId, profile, zcaBinary) ==
  [accountId |-> accountId, profile |-> profile, zcaBinary |-> zcaBinary]

\* three accounts with keys of their own and one that differs from the first
\* in white space only
ProbeAccounts ==
  {ProbeAccount(<<"a">>, <<"p">>, <<"z">>), ProbeAccount(<<"a", " ">>, <<"p">>, <<"z">>),
   ProbeAccount(<<"b">>, <<"p">>, <<"z">>), ProbeAccount(<<"c">>, <<"p">>, <<"z">>)}

\* params.cacheTtlMs
ProbeTtls == {Undef, Num(-1), Num(0), Num(1)}

NoProbe == [ok |-> FALSE, profile |-> <<>>, binary |-> <<>>, error |-> "none"]

\* the probe of a command that resolved (error "") or rejected with a text
ProbeOf(account, error) ==
  [ok |-> error = "", profile |-> account.profile, binary |-> account.zcaBinary,
   error |-> error]

\* what the injected runCommand does: it resolves or it rejects with a text
runCommand == {"", "not logged in"}

buildProbeCacheKey(account) ==
  Join(<<Trim(account.accountId), Trim(account.profile), Trim(account.zcaBinary)>>, <<"|">>)

ProbeCacheHas(c, key) == \E i \in 1..Len(c) : c[i].key = key

ProbeCacheGet(c, key) == c[CHOOSE i \in 1..Len(c) : c[i].key = key]

\* the mutated readCachedProbe: the expiry is not looked at
readCachedProbeStale(c, key, at) ==
  IF ~ProbeCacheHas(c, key) THEN [cache |-> c, probe |-> NoProbe]
  ELSE [cache |-> c, probe |-> ProbeCacheGet(c, key).probe]

\* readCachedProbe: the cache after the call and the probe returned (NoProbe: null)
readCachedProbe(c, key, at) ==
  IF ~ProbeCacheHas(c, key) THEN [cache |-> c, probe |-> NoProbe]
  ELSE IF ProbeCacheGet(c, key).expiresAt <= at
  THEN [cache |-> SelectSeq(c, LAMBDA e : e.key # key), probe |-> NoProbe]
  ELSE [cache |-> c, probe |-> ProbeCacheGet(c, key).probe]

\* probeCache.set: a key that is there keeps its place
ProbeCacheSet(c, entry) ==
  IF ProbeCacheHas(c, entry.key)
  THEN [i \in 1..Len(c) |-> IF c[i].key = entry.key THEN entry ELSE c[i]]
  ELSE Append(c, entry)

\* the eviction of the first key when the cache has outgrown its cap
ProbeCacheCapped(c) == IF Len(c) > MAX_PROBE_CACHE_SIZE THEN Tail(c) ELSE c

writeCachedProbe(c, key, probe, at, ttlMs) ==
  ProbeCacheCapped(ProbeCacheSet(c, [key |-> key, probe |-> probe, expiresAt |-> at + ttlMs]))

\* Math.max(0, cacheTtlMs ?? PROBE_CACHE_TTL_MS)
ProbeTtlMs(cacheTtlMs) ==
  IF ~cacheTtlMs.def THEN PROBE_CACHE_TTL_MS
  ELSE IF cacheTtlMs.val < 0 THEN 0 ELSE cacheTtlMs.val

NoProbeCall ==
  [pc |-> "idle", account |-> ProbeAccount(<<>>, <<>>, <<>>), forceRefresh |-> FALSE,
   cacheTtlMs |-> Undef, ttlMs |-> 0, cacheKey |-> <<>>, before |-> <<>>, startedAt |-> 0,
   settledAt |-> 0, ran |-> FALSE, probe |-> NoProbe, ops |-> 0]

ProbeInit ==
  /\ probeCache = <<>>
  /\ probeCall = NoProbeCall

\* the call returns the probe it found in the cache
ProbeReturnsCached(call, read) ==
  /\ probeCall' = [call EXCEPT !.pc = "done", !.probe = read.probe, !.settledAt = now]
  /\ probeCache' = read.cache

\* the call goes on to the command; an expired entry it met is gone
ProbeRunsCommand(call, c) ==
  /\ probeCall' = [call EXCEPT !.pc = "command", !.ran = TRUE]
  /\ probeCache' = c

\* the call with its locals, before it looks at the cache
ProbeEntered(account, forceRefresh, cacheTtlMs) ==
  [pc |-> "entered", account |-> account, forceRefresh |-> forceRefresh,
   cacheTtlMs |-> cacheTtlMs, ttlMs |-> ProbeTtlMs(cacheTtlMs),
   cacheKey |-> buildProbeCacheKey(account), before |-> probeCache, startedAt |-> now,
   settledAt |-> 0, ran |-> FALSE, probe |-> NoProbe, ops |-> probeCall.ops + 1]

\* the cache is read unless the refresh is forced or the TTL is 0
ProbeLooksUp(call, read) ==
  IF ~call.forceRefresh /\ call.ttlMs > 0
  THEN IF read.probe # NoProbe THEN ProbeReturnsCached(call, read)
       ELSE ProbeRunsCommand(call, read.cache)
  ELSE ProbeRunsCommand(call, probeCache)

\* probeOpenzaloAuth is called and runs up to its return or to the awaited command
ProbeStarts(account, forceRefresh, cacheTtlMs) ==
  /\ probeCall.pc \in {"idle", "done"}
  /\ probeCall.ops < MaxProbeOps
  /\ ProbeLooksUp(ProbeEntered(account, forceRefresh, cacheTtlMs),
                  readCachedProbe(probeCache, buildProbeCacheKey(account), now))
  /\ UNCHANGED <<now, nonProbeVars>>

\* the command settles: the probe is built, cached when the TTL allows, returned
ProbeCommandSettles(error) ==
  /\ probeCall.pc = "command"
  /\ probeCall' = [probeCall EXCEPT !.pc = "done", !.settledAt = now,
                                    !.probe = ProbeOf(probeCall.account, error)]
  /\ probeCache' = IF probeCall.ttlMs > 0
                   THEN writeCachedProbe(probeCache, probeCall.cacheKey,
                                         ProbeOf(probeCall.account, error), now,
                                         probeCall.ttlMs)
                   ELSE probeCache
  /\ UNCHANGED <<now, nonProbeVars>>

ProbeTick ==
  /\ now < MaxProbeTime
  /\ now' = now + 1
  /\ UNCHANGED allButNow

NextProbe ==
  \/ \E account \in ProbeAccounts, forceRefresh \in BOOLEAN, cacheTtlMs \in ProbeTtls :
       ProbeStarts(account, forceRefresh, cacheTtlMs)
  \/ \E error \in runCommand : ProbeCommandSettles(error)
  \/ ProbeTick

StateInit ==
  /\ now = 1
  /\ LedgerInit
  /\ DebounceInit
  /\ StoreInit
  /\ LockInit
  /\ HookInit
  /\ CacheInit
  /\ HistoryInit
  /\ ReadyInit
  /\ RunInit
  /\ ProbeInit

Init ==
  /\ StateInit
  /\ fnIn = <<>>
  /\ fnOut = NoFnOut

InitCombine ==
  /\ StateInit
  /\ fnIn \in BatchInputs
  /\ fnOut = NoFnOut

SpecCombine == InitCombine /\ [][CombineBatch]_vars

InitIdentity ==
  /\ StateInit
  /\ fnIn \in IdentityInputs
  /\ fnOut = NoFnOut

SpecIdentity == InitIdentity /\ [][CombineIdentity]_vars

InitKeys ==
  /\ StateInit
  /\ fnIn \in KeyInputs
  /\ fnOut = NoFnOut

SpecKeys == InitKeys /\ [][BuildKeys]_vars

InitRestore ==
  /\ StateInit
  /\ fnIn \in RestoreLists
  /\ fnOut = NoFnOut

NextRestore ==
  \/ \E in \in RestoreBinds : Bind(in[1], in[2], in[3], in[4], in[5])
  \/ ReplaceAll(fnIn)
  \/ StoreTick

SpecRestore == InitRestore /\ [][NextRestore]_vars

SpecCache == Init /\ [][NextCache]_vars

NextShortIds ==
  \/ \E in \in ShortIdInputs : RememberNext(in)
  \/ CacheTick

SpecShortIds == Init /\ [][NextShortIds]_vars

SpecHistory == Init /\ [][NextHistory]_vars

SpecReady == Init /\ [][NextReady]_vars

\* a command that was started settles: the runner enforces its timeoutMs
SpecReadyLive == SpecReady /\ WF_vars(CommandSettles)

NextLedger ==
  \/ \E p \in BasePayloads : Acquire(p)
  \/ \E t \in issued \cup UnknownTickets, sent \in BOOLEAN : Release(t, sent)
  \/ Tick

SpecLedger == Init /\ [][NextLedger]_vars

NextSequence ==
  \/ \E p \in SequencePayloads : Acquire(p)
  \/ \E t \in issued, sent \in BOOLEAN : Release(t, sent)
  \/ Tick

SpecSequence == Init /\ [][NextSequence]_vars

NextScope ==
  \/ \E p \in ScopePayloads : Acquire(p)
  \/ \E t \in issued, sent \in BOOLEAN : Release(t, sent)
  \/ Tick

SpecScope == Init /\ [][NextScope]_vars

\* ------------------------------------------------------ claims: ledger
\* C1: while a ticket acquired for a fingerprint is unreleased, every
\* further acquire of that fingerprint is refused with reason "inflight",
\* so at most one unreleased ticket exists per fingerprint.
C1_InflightExclusive ==
  /\ \A f \in Fingerprints : Cardinality({t \in held : t.fp = f}) <= 1
  /\ (lastAcquire.op = "acquire" /\ lastAcquire.preEvent = "acquired")
       => lastAcquire.outcome = "inflight"

C1_Witness ==
  /\ lastAcquire.op = "acquire"
  /\ lastAcquire.preEvent = "acquired"
  /\ lastAcquire.outcome = "inflight"

RecentlySent(f) == recent[f] # 0 /\ recent[f] > now

\* C2: after release(sent:true) an acquire before the recent-window expiry
\* is refused with reason "recent", an acquire after the expiry succeeds,
\* and a fingerprint stops being Recently-Sent only when the expiry is reached.
C2_RecentWindow ==
  /\ [](lastAcquire.op = "acquire" /\ lastAcquire.preEvent = "sent"
          => /\ lastAcquire.at < lastAcquire.preSentAt + RecentWindowMs
                  => lastAcquire.outcome = "recent"
             /\ lastAcquire.at > lastAcquire.preSentAt + RecentWindowMs
                  => lastAcquire.outcome = "acquired")
  /\ [][\A f \in Fingerprints :
          RecentlySent(f) /\ ~RecentlySent(f)' => now' >= recent[f]]_vars

C2_Witness ==
  /\ lastAcquire.op = "acquire"
  /\ lastAcquire.preEvent = "sent"
  /\ lastAcquire.at > lastAcquire.preSentAt + RecentWindowMs
  /\ lastAcquire.outcome = "acquired"

\* C3: after release(sent:false) the fingerprint is unlocked again: no
\* inflight lock and no recent entry remain, and the next acquire succeeds.
C3_FailedReleaseUnlocks ==
  /\ \A f \in Fingerprints :
       lastEvent[f] = "failed"
         => inflight[f] = 0 /\ AcquireOutcome(f, now) = "acquired"
  /\ (lastAcquire.op = "acquire" /\ lastAcquire.preEvent = "failed")
       => lastAcquire.outcome = "acquired"

C3_Witness ==
  /\ lastAcquire.op = "acquire"
  /\ lastAcquire.preEvent = "failed"
  /\ lastAcquire.outcome = "acquired"

\* C14: releasing a ticket that was already released, or one the ledger
\* never issued, changes nothing in the ledger: the lock of a newer
\* unreleased ticket of the same fingerprint stays, and no recent-window
\* entry is created or extended.
C14_ReleaseIdempotent ==
  /\ [](\A t \in held : inflight[t.fp] = t.id)
  /\ [][(lastAcquire'.op = "release" /\ ~lastAcquire'.wasHeld)
          => UNCHANGED <<inflight, recent, nextTicket, issued, held,
                         lastEvent, sentAt>>]_vars

C14_Witness ==
  /\ lastAcquire.op = "release"
  /\ ~lastAcquire.wasHeld
  /\ lastAcquire.known
  /\ lastAcquire.sent
  /\ lastAcquire.at = now
  /\ inflight[lastAcquire.fp] # 0
  /\ recent[lastAcquire.fp] = 0

\* what identifies the content of a send: the media reference or the text
SameSend(p, q) ==
  /\ p.accountId = q.accountId
  /\ p.sessionKey = q.sessionKey
  /\ p.target = q.target
  /\ p.kind = q.kind
  /\ IF p.kind = "media" THEN p.mediaRef = q.mediaRef ELSE p.text = q.text

DifferOnlyInSequence(p, q) ==
  /\ SameSend(p, q)
  /\ p.idempotencyContext = q.idempotencyContext
  /\ p.sequence # q.sequence

DifferOnlyInContext(p, q) ==
  /\ SameSend(p, q)
  /\ p.sequence = q.sequence
  /\ p.idempotencyContext # q.idempotencyContext

DifferOnlyInText(p, q) ==
  /\ p.kind = "text" /\ q.kind = "text"
  /\ p.text # q.text
  /\ \A field \in {"accountId", "sessionKey", "target", "mediaRef",
                    "sequence", "idempotencyContext"} : p[field] = q[field]

\* the state right after an acquire
AcquiredNow == lastAcquire.op = "acquire" /\ lastAcquire.at = now

Locked(f) == inflight[f] # 0 \/ RecentlySent(f)

\* C15: sends that differ only in sequence have independent slots (an
\* acquire or release of one never changes what an acquire of the other
\* returns), and repeating a send with the same sequence within the recent
\* window after a successful release returns "recent"; text and media alike.
C15_SequenceSlots ==
  /\ [](AcquiredNow /\ lastAcquire.preEvent = "sent"
           /\ lastAcquire.at < lastAcquire.preSentAt + RecentWindowMs
         => lastAcquire.outcome = "recent")
  /\ [][\A p, q \in SequencePayloads :
          (DifferOnlyInSequence(p, q) /\ now' = now
             /\ lastAcquire'.fp = Fingerprint(q))
          => AcquireOutcome(Fingerprint(p), now)'
               = AcquireOutcome(Fingerprint(p), now)]_vars

C15_Witness ==
  /\ AcquiredNow
  /\ lastAcquire.outcome = "recent"
  /\ \E p, q \in SequencePayloads :
       /\ DifferOnlyInSequence(p, q)
       /\ p.kind = "media"
       /\ Fingerprint(p) = lastAcquire.fp
       /\ inflight[Fingerprint(q)] # 0

\* C16: sends that differ only in idempotencyContext have independent
\* slots: right after a successful release under one context the same
\* payload is refused as "recent" under that context, and what an acquire
\* under the other context returns is unchanged; an acquire is only ever
\* refused because of its own fingerprint's lock or recent entry.
C16_ContextSlots ==
  /\ [](AcquiredNow /\ lastAcquire.outcome # "acquired"
         => lastAcquire.preEvent \in {"acquired", "sent"})
  /\ [][\A p, q \in ScopePayloads :
          (DifferOnlyInContext(p, q) /\ now' = now
             /\ lastAcquire'.op = "release" /\ lastAcquire'.wasHeld
             /\ lastAcquire'.sent /\ lastAcquire'.fp = Fingerprint(p))
          => /\ AcquireOutcome(Fingerprint(p), now)' = "recent"
             /\ AcquireOutcome(Fingerprint(q), now)'
                  = AcquireOutcome(Fingerprint(q), now)]_vars

C16_Witness ==
  /\ AcquiredNow
  /\ lastAcquire.outcome = "acquired"
  /\ \E p, q \in ScopePayloads :
       /\ DifferOnlyInContext(p, q)
       /\ Fingerprint(q) = lastAcquire.fp
       /\ RecentlySent(Fingerprint(p))
       /\ AcquireOutcome(Fingerprint(p), now) = "recent"

NextDebounce ==
  \/ \E payload \in InboundPayloads : onJsonLine(payload)
  \/ \E key \in DebounceKeys, ok \in BOOLEAN : onFlush(key, ok)
  \/ Tick

SpecDebounce == Init /\ [][NextDebounce]_vars

NextStore ==
  \/ \E in \in BindInputs : Bind(in[1], in[2], in[3], in[4], in[5])
  \/ \E a \in RawAccounts, to \in RawTargets : ResolveByTarget(a, to)
  \/ \E s \in RawSessions, a \in RawAccounts : ResolveOriginBySession(s, a)
  \/ \E s \in RawSessions, a \in RawAccounts : UnbindBySession(s, a)
  \/ Snapshot
  \/ \E records \in RestoreInputs : ReplaceAll(records)
  \/ StoreTick

SpecStore == Init /\ [][NextStore]_vars

NextRestart ==
  \/ \E in \in BindInputs : Bind(in[1], in[2], in[3], in[4], in[5])
  \/ \E s \in RawSessions, a \in RawAccounts : UnbindBySession(s, a)
  \/ \E records \in RestoreInputs : ReplaceAll(records)
  \/ SnapshotRestore
  \/ StoreTick

SpecRestart == Init /\ [][NextRestart]_vars

SpecRun == Init /\ [][NextRun]_vars

SpecProbe == Init /\ [][NextProbe]_vars

NextLock ==
  \/ \E p \in LockCallers :
       \/ EnterLock(p)
       \/ OpenLock(p)
       \/ WriteLock(p)
       \/ WriteLockFails(p)
       \/ FnReturns(p)
       \/ FnThrows(p)
       \/ ReleaseLock(p)
       \/ ReadLock(p)
       \/ StatLock(p)
       \/ RemoveStaleLock(p)
  \/ LockTick

SpecLock == Init /\ [][NextLock]_vars

\* the handlers; the persists they queue are not run
NextHooks ==
  \/ \E event \in SpawningEvents : subagent_spawning(event)
  \/ \E event \in EndedEvents : subagent_ended(event)
  \/ \E event \in DeliveryEvents : subagent_delivery_target(event)
  \/ HookTick

SpecHooks == Init /\ [][NextHooks]_vars

\* the handlers that persist, and the persists they queue
NextPersist ==
  \/ \E event \in PersistingSpawningEvents : subagent_spawning(event)
  \/ \E event \in PersistingEndedEvents : subagent_ended(event)
  \/ \E i \in PersistIds : PersistStarts(i)
  \/ \E i \in PersistIds, locked \in BOOLEAN : PersistLocks(i, locked)
  \/ \E i \in PersistIds, ok \in BOOLEAN : PersistWrites(i, ok)
  \/ HookTick

SpecPersist == Init /\ [][NextPersist]_vars

\* ---------------------------------------------------- claims: debouncer
SeqRange(seq) == {seq[i] : i \in 1..Len(seq)}

EntryIds(entries) == {entries[i].id : i \in 1..Len(entries)}

\* number of hand-offs and buffer slots that hold the entry with this id
Occurrences(id) ==
  Cardinality({<<b, i>> \in (1..Len(flushed)) \X (1..MaxEntries + 1) :
                 i <= Len(flushed[b].entries) /\ flushed[b].entries[i].id = id})
  + Cardinality({<<k, i>> \in DebounceKeys \X (1..MaxEntries + 1) :
                 i <= Len(buffers[k]) /\ buffers[k][i].id = id})

InArrivalOrder(entries) ==
  \A i, j \in 1..Len(entries) : i < j => entries[i].id < entries[j].id

\* C4: every enqueued entry is handed to the flush callback exactly once
\* (it is either still buffered under a pending timer or in exactly one
\* batch), a batch holds all entries of one key buffered in that window, in
\* arrival order, and after the hand-off the key has neither buffer nor timer.
C4_FlushedOnceInOrder ==
  /\ \A id \in 1..(nextEntry - 1) : Occurrences(id) = 1
  /\ \A k \in DebounceKeys :
       /\ (buffers[k] # <<>>) <=> (timers[k] # 0)
       /\ InArrivalOrder(buffers[k])
       /\ \A i \in 1..Len(buffers[k]) :
            buildOpenzaloDebounceKey(MonitorAccountId, buffers[k][i].message) = k
  /\ \A b \in 1..Len(flushed) :
       /\ flushed[b].entries # <<>>
       /\ InArrivalOrder(flushed[b].entries)
       /\ \A i \in 1..Len(flushed[b].entries) :
            buildOpenzaloDebounceKey(MonitorAccountId, flushed[b].entries[i].message)
              = flushed[b].key
       \* the batch is the whole window: entries of the key that arrived
       \* before its last entry are in this batch or in an earlier one
       /\ \A c \in 1..Len(flushed) :
            (c > b /\ flushed[c].key = flushed[b].key)
              => \A x \in EntryIds(flushed[b].entries), y \in EntryIds(flushed[c].entries) :
                   x < y
       /\ \A y \in EntryIds(buffers[flushed[b].key]),
            x \in EntryIds(flushed[b].entries) : x < y

C4_Witness ==
  \E b \in 1..Len(flushed) :
    /\ Len(flushed[b].entries) >= 2
    /\ buffers[flushed[b].key] = <<>>
    /\ timers[flushed[b].key] = 0

\* C12: the timer of a key is started by the first entry of a window at
\* one debounce interval from its arrival, a further entry for the key
\* leaves the pending timer as it is, and the batch is flushed no earlier
\* than one interval after its first entry, however late the others came.
C12_FixedWindow ==
  /\ [](/\ \A k \in DebounceKeys :
             timers[k] # 0
               => timers[k] = buffers[k][1].at + DEFAULT_INBOUND_DEBOUNCE_MS
        /\ \A b \in 1..Len(flushed) :
             flushed[b].at >= flushed[b].entries[1].at + DEFAULT_INBOUND_DEBOUNCE_MS)
  /\ [][\A k \in DebounceKeys :
          /\ (timers[k] # 0 /\ timers'[k] # 0) => timers'[k] = timers[k]
          /\ (timers[k] # 0 /\ timers'[k] = 0)
               => /\ now >= buffers[k][1].at + DEFAULT_INBOUND_DEBOUNCE_MS
                  /\ flushed' # flushed
                  /\ flushed'[Len(flushed')].entries = buffers[k]]_vars

C12_Witness ==
  \E b \in 1..Len(flushed) :
    /\ Len(flushed[b].entries) >= 2
    /\ flushed[b].entries[2].at > flushed[b].entries[1].at
    /\ flushed[b].at = flushed[b].entries[1].at + DEFAULT_INBOUND_DEBOUNCE_MS

\* C13: a failed flush is reported to onError once, its entries are never
\* handed to onFlush again (they are in no other batch and in no buffer),
\* and it leaves the buffers and the pending timers of the other keys as
\* they are.
C13_FlushFailureIsolated ==
  /\ [](/\ \A b \in 1..Len(flushed) :
             /\ ~flushed[b].ok <=> b \in SeqRange(flushErrors)
             /\ ~flushed[b].ok
                  => /\ \A c \in 1..Len(flushed) \ {b} :
                          EntryIds(flushed[c].entries)
                            \cap EntryIds(flushed[b].entries) = {}
                     /\ \A k \in DebounceKeys :
                          EntryIds(buffers[k]) \cap EntryIds(flushed[b].entries) = {}
        /\ \A i, j \in 1..Len(flushErrors) : i # j => flushErrors[i] # flushErrors[j])
  /\ [][\A k \in DebounceKeys :
          (flushErrors' # flushErrors /\ flushed'[Len(flushed')].key = k)
            => \A other \in DebounceKeys \ {k} :
                 buffers'[other] = buffers[other] /\ timers'[other] = timers[other]]_vars

C13_Witness ==
  \E b, c \in 1..Len(flushed) :
    /\ b < c
    /\ ~flushed[b].ok
    /\ flushed[c].ok
    /\ flushed[c].key # flushed[b].key
    /\ flushed[c].entries[1].at <= flushed[b].at
    /\ flushed[c].at = flushed[c].entries[1].at + DEFAULT_INBOUND_DEBOUNCE_MS
    /\ b \in SeqRange(flushErrors)

\* C11: for a batch of several entries the merged text is the last entry's
\* text when that entry matches the command pattern, and otherwise the
\* newline-joined trimmed, non-empty, de-duplicated texts in first-seen order.
C11_MergedText ==
  (fnOut.done /\ Len(fnIn) >= 2)
    => fnOut.text = IF IsCommandText(Trim(fnIn[Len(fnIn)]))
                    THEN fnIn[Len(fnIn)]
                    ELSE Join(dedupeStrings(fnIn), <<"\n">>)


\* -------------------------------------------------- claims: binding store
\* the raw target names the conversation of record b
NamesTargetOf(to, b) ==
  LET parsed == parseOpenzaloTarget(Trim(to))
  IN Trim(to) # <<>> /\ parsed.ok
     /\ parsed.threadId = b.threadId /\ parsed.isGroup = b.isGroup

NamesAccountOf(accountId, b) == normalizeAccountId(accountId) = b.accountId

IsCanonicalTarget(b) ==
  b.to = (IF b.isGroup THEN PrefixGroup ELSE PrefixUser) \o b.threadId

\* C5: while a bind is in force (not replaced, unbound, wiped or expired),
\* resolveByTarget returns its session, agent and canonical to / threadId /
\* isGroup for every spelling of the account and of the target that
\* normalizes to the same conversation.
C5_BindResolveRoundTrip ==
  \A b \in inForce :
    ~(b.expiresAt # 0 /\ b.expiresAt <= now)
      => /\ IsCanonicalTarget(b)
         /\ \A a \in RawAccounts, to \in RawTargets :
              (NamesAccountOf(a, b) /\ NamesTargetOf(to, b))
                => LET r == resolveOpenzaloBoundSessionByTarget(store, a, to, now).records
                   IN /\ r # <<>>
                      /\ r[1].childSessionKey = b.childSessionKey
                      /\ r[1].agentId = b.agentId
                      /\ r[1].to = b.to
                      /\ r[1].threadId = b.threadId
                      /\ r[1].isGroup = b.isGroup

\* the bind made through the alias "G-1" is resolved again
C5_Witness ==
  /\ storeRet.op = "resolveByTarget"
  /\ storeRet.records # <<>>
  /\ storeRet.records[1] \in inForce
  /\ storeRet.records[1].childSessionKey = <<"b">>
  /\ storeRet.records[1].ttlMs = 1
  /\ storeRet.records[1].to = TargetGroup1

ReadOps == {"resolveByTarget", "resolveOriginBySession", "unbindBySession", "snapshot"}

DeadlinePassed(b, at) == b.ttlMs # 0 /\ at >= b.boundAt + b.ttlMs

\* C6: no store operation returns an expired record (expiresAt set and
\* expiresAt <= now at the call), and a bind made with a ttlMs expires at
\* boundAt + ttlMs, after which no lookup returns it.
C6_NeverReturnsExpired ==
  /\ \A r \in SeqRange(storeRet.records) :
       r.expiresAt = 0 \/ r.expiresAt > storeRet.at
  /\ (storeRet.op = "bind" /\ storeRet.records # <<>> /\ storeRet.records[1].ttlMs # 0)
       => /\ storeRet.records[1].boundAt = storeRet.at
          /\ storeRet.records[1].expiresAt
               = storeRet.records[1].boundAt + storeRet.records[1].ttlMs
  /\ \A b \in inForce :
       DeadlinePassed(b, now)
         => /\ b \notin SeqRange(snapshotOpenzaloSubagentBindings(store, now).records)
            /\ \A a \in RawAccounts :
                 /\ b \notin SeqRange(resolveOpenzaloBoundOriginBySession(
                                        store, b.childSessionKey, a, now).records)
                 /\ b \notin SeqRange(unbindOpenzaloSubagentSessionByKey(
                                        store, b.childSessionKey, a, now).records)
                 /\ \A to \in RawTargets :
                      b \notin SeqRange(resolveOpenzaloBoundSessionByTarget(
                                          store, a, to, now).records)
  /\ (storeRet.op \in ReadOps)
       => \A r \in SeqRange(storeRet.records) : ~DeadlinePassed(r, storeRet.at) \/ r \notin inForce

\* a lookup of a conversation whose ttl bind has run out returns nothing
C6_Witness ==
  /\ storeRet.op = "resolveByTarget"
  /\ storeRet.records = <<>>
  /\ \E b \in inForce : DeadlinePassed(b, now) /\ KeyOf(b) = storeRet.key

\* C7: a conversation key has at most one binding; a bind on a bound key
\* replaces it, resolveByTarget then gives the new session, and the
\* replaced session no longer reaches that conversation through
\* resolveOriginBySession or unbindBySession.
C7_LastBindWins ==
  /\ \A i, j \in 1..Len(store.fwd) : i # j => KeyOf(store.fwd[i]) # KeyOf(store.fwd[j])
  /\ \A s \in SessionKeys, a \in RawAccounts :
       /\ \A r \in SeqRange(resolveOpenzaloBoundOriginBySession(store, s, a, now).records) :
            r.childSessionKey = s
       /\ \A r \in SeqRange(unbindOpenzaloSubagentSessionByKey(store, s, a, now).records) :
            r.childSessionKey = s
  /\ (storeRet.op = "bind" /\ storeRet.records # <<>>)
       => LET new == storeRet.records[1]
          IN /\ MapGet(store.fwd, KeyOf(new)) = new
             /\ (storeRet.replaced # <<>> /\ storeRet.replaced # new.childSessionKey)
                  => /\ ~SetHas(store.rev[storeRet.replaced], KeyOf(new))
                     /\ \A a \in RawAccounts :
                          /\ \A r \in SeqRange(resolveOpenzaloBoundOriginBySession(
                                                 store, storeRet.replaced, a, now).records) :
                               KeyOf(r) # KeyOf(new)
                          /\ \A r \in SeqRange(unbindOpenzaloSubagentSessionByKey(
                                                 store, storeRet.replaced, a, now).records) :
                               KeyOf(r) # KeyOf(new)

C7_Witness ==
  /\ storeRet.op = "bind"
  /\ storeRet.records # <<>>
  /\ storeRet.replaced # <<>>
  /\ storeRet.replaced # storeRet.records[1].childSessionKey

\* the live bindings of a session, of one account when a filter is given
LiveOfSession(st, sessionKey, accountId) ==
  {r \in SeqRange(st.fwd) :
     /\ r.childSessionKey = sessionKey
     /\ (accountId = <<>> \/ r.accountId = accountId)}

\* C18: unbindBySession removes every live binding of the session (of the
\* given account only, when one is given) from both indexes and returns
\* exactly those records; afterwards neither resolveByTarget nor
\* resolveOriginBySession returns any of them; when nothing matches the
\* result is empty and no live binding is removed.
C18_UnbindRemovesSession ==
  [][(storeRet'.op = "unbindBySession" /\ storeOps' # storeOps)
      => LET swept == sweepExpiredBindings(store, now)
             live == LiveOfSession(swept, storeRet'.childSessionKey, storeRet'.accountId)
         IN /\ SeqRange(storeRet'.records) = live
            /\ Len(storeRet'.records) = Cardinality(live)
            /\ SeqRange(store'.fwd) = SeqRange(swept.fwd) \ live
            /\ Len(store'.fwd) = Len(swept.fwd) - Cardinality(live)
            /\ \A r \in live :
                 /\ ~SetHas(store'.rev[r.childSessionKey], KeyOf(r))
                 /\ resolveOpenzaloBoundSessionByTarget(
                      store', r.accountId, r.to, now).records = <<>>
            /\ resolveOpenzaloBoundOriginBySession(
                 store', storeRet'.childSessionKey, storeRet'.accountId, now).records
                 = <<>>]_vars

C18_Witness ==
  /\ storeRet.op = "unbindBySession"
  /\ storeRet.records # <<>>
  /\ storeRet.accountId # <<>>
  /\ \E r \in SeqRange(store.fwd) :
       /\ r.childSessionKey = storeRet.childSessionKey
       /\ r.accountId # storeRet.accountId

\* the bind calls whose target, session or agent is blank or unparseable
InvalidBindInputs ==
  {in \in BindInputs :
     \/ in[2] \in {TargetBlank, TargetNoId}
     \/ Trim(in[3]) = <<>>
     \/ Trim(in[4]) = <<>>}

\* C19: a bind whose target is blank or unparseable, or whose
\* childSessionKey or agentId is blank, returns null and leaves the forward
\* and the reverse index exactly as they were.
C19_InvalidBindNoEffect ==
  /\ [](\A in \in InvalidBindInputs :
          bindOpenzaloSubagentSession(store, in[1], in[2], in[3], in[4], in[5], now)
            = [st |-> store, records |-> <<>>])
  /\ [][(storeRet'.op = "bind" /\ storeOps' # storeOps /\ storeRet'.records = <<>>)
          => store' = store]_vars

C19_Witness ==
  /\ storeRet.op = "bind"
  /\ storeRet.records = <<>>
  /\ store.fwd # <<>>
  /\ \E k \in SessionKeys : store.rev[k] # <<>>

\* C20: the number replaceAll returns equals the number of bindings the
\* store holds right after the call (the length of snapshot at the same
\* nowMs).
C20_ReplaceAllCount ==
  storeRet.op = "replaceAll"
    => storeRet.count = Len(snapshotOpenzaloSubagentBindings(store, storeRet.at).records)

\* a raw record that passes the validation of restore at nowMs
ValidRaw(raw, nowMs) ==
  /\ resolveTargetFromTo(Trim(raw.to)).ok
  /\ Trim(raw.childSessionKey) # <<>>
  /\ Trim(raw.agentId) # <<>>
  /\ (raw.expiresAt.def => raw.expiresAt.val > nowMs)

RawKey(raw) ==
  toConversationKey(normalizeAccountId(Trim(raw.accountId)),
                    resolveTargetFromTo(Trim(raw.to)).to)

\* C21: replaceAll discards every binding held before the call and
\* validates each input record on its own: a record with a malformed
\* target, without session or agent id, or with an expiry not after nowMs
\* is dropped, every valid record of the same input is restored whatever
\* invalid records surround it, and a non-array input leaves the store empty.
C21_ReplaceAllValidatesEach ==
  [][(storeRet'.op = "replaceAll" /\ storeOps' # storeOps)
      => LET items == fnIn.items
             Valid(raw) == ValidRaw(raw, now)
         IN /\ ~fnIn.isArray => store' = EmptyStore
            /\ \A i \in 1..Len(items) :
                 IF ValidRaw(items[i], now)
                 THEN MapHas(store'.fwd, RawKey(items[i]))
                 ELSE restoreBindingRecord(items[i], now) = NoRecord
            /\ \A r \in SeqRange(store'.fwd) :
                 \E i \in 1..Len(items) :
                   ValidRaw(items[i], now) /\ r = restoreBindingRecord(items[i], now)
            /\ store' = replaceOpenzaloSubagentBindings(
                          RawArray(SelectSeq(items, Valid)), now).st
            /\ \A k \in SessionKeys :
                 SeqRange(store'.rev[k])
                   = {KeyOf(r) : r \in {x \in SeqRange(store'.fwd) : x.childSessionKey = k}}]_vars

C21_Witness ==
  /\ storeRet.op = "replaceAll"
  /\ storeRet.before > 0
  /\ storeRet.count = 1
  /\ Len(fnIn.items) = 2
  /\ ~ValidRaw(fnIn.items[1], storeRet.at)
  /\ ValidRaw(fnIn.items[2], storeRet.at)
  /\ Len(store.fwd) = 1

\* ------------------------------------------------- claims: persistence
InProgress(i) == persistState[i] \in {"locking", "writing"}

WrittenIds == {i \in PersistIds : persistOk[i]}

LastWritten == CHOOSE i \in WrittenIds : \A j \in WrittenIds : j <= i

AllPersistsDone ==
  persistCount > 0 /\ \A i \in 1..persistCount : persistState[i] = "done"

\* C8 (as the claim states it): once all queued persists have finished, the
\* file holds the snapshot of the last-requested persist.
C8_FileHoldsLastRequested ==
  AllPersistsDone
    => diskFile = [exists |-> TRUE, bindings |-> persistPayload[persistCount].bindings]

\* C8 (amended): the persists of one registration run one at a time and in
\* request order, each write carries the snapshot taken when it runs under
\* the lock, and the file always holds the snapshot of the latest persist
\* whose write succeeded (a persist whose lock or write fails leaves the
\* file as it was), so an earlier write never replaces a later one.
C8_PersistSerialized ==
  /\ [](/\ Cardinality({i \in PersistIds : InProgress(i)}) <= 1
        /\ \A i, j \in PersistIds :
             (i < j /\ persistState[j] \notin {"none", "queued"})
               => persistState[i] = "done"
        /\ diskFile = IF WrittenIds = {} THEN NoDiskFile
                      ELSE [exists |-> TRUE,
                            bindings |-> persistPayload[LastWritten].bindings])
  /\ [][\A i \in PersistIds :
          (persistState[i] = "locking" /\ persistState'[i] = "writing")
            => persistPayload'[i] =
                 [taken |-> TRUE,
                  bindings |-> snapshotOpenzaloSubagentBindings(store, now).records]]_vars

C8_Witness ==
  /\ persistCount >= 2
  /\ AllPersistsDone
  /\ persistOk[persistCount - 1]
  /\ persistOk[persistCount]
  /\ persistPayload[persistCount - 1] # persistPayload[persistCount]
  /\ diskFile.bindings = persistPayload[persistCount].bindings

\* a persist that settled without writing the file
PersistFailed(i) == persistState[i] = "done" /\ ~persistOk[i]

\* C22: a persist that fails (lock timeout or write error) is swallowed:
\* the subagent_spawning handler awaiting it still returns status "ok",
\* the failure leaves the in-memory store as it was, and the persist
\* queued behind a failed one can still start.
C22_PersistFailureSwallowed ==
  /\ [](\A i \in PersistIds :
          /\ (persistAwait[i].hook = "subagent_spawning" /\ persistState[i] = "done")
               => persistAwait[i].returned = "ok"
          /\ (i > 1 /\ persistState[i] = "queued")
               => (IF PersistFailed(i - 1) THEN ENABLED PersistStarts(i) ELSE TRUE))
  /\ [][\A i \in PersistIds :
          (persistState[i] # "done" /\ PersistFailed(i)')
            => store' = store /\ diskFile' = diskFile]_vars

C22_Witness ==
  /\ persistCount >= 2
  /\ PersistFailed(1)
  /\ persistAwait[1] = [hook |-> "subagent_spawning", returned |-> "ok"]
  /\ persistOk[2]
  /\ \E r \in SeqRange(store.fwd) :
       resolveOpenzaloBoundSessionByTarget(store, r.accountId, r.to, now).records = <<r>>

\* --------------------------------------------------- claims: file lock
InCriticalSection(p) == lockPc[p] = "fn"

\* C9: at no time are two callers of withStoreFileLock for the same file
\* inside their critical section at once.
C9_MutualExclusion ==
  \A p, q \in LockCallers :
    (InCriticalSection(p) /\ InCriticalSection(q)) => p = q

\* ------------------------------------------------------- claims: hooks
Delivered == hookRet.hook = "subagent_delivery_target" /\ hookRet.status = "resolved"

\* the origin is that of a live binding of the session, under the
\* requester's account when the event names one
FromLiveBinding(origin) ==
  \E k \in 1..Len(store.fwd) :
    /\ store.fwd[k].childSessionKey = hookRet.childSessionKey
    /\ ~DeadlinePassed(store.fwd[k], now)
    /\ hookRet.accountId # <<>> => store.fwd[k].accountId = hookRet.accountId
    /\ KeyOf(store.fwd[k]) \in SeqRange(store.rev[hookRet.childSessionKey])
    /\ origin = [channel |-> ChannelOpenzalo, accountId |-> store.fwd[k].accountId,
                 to |-> store.fwd[k].to, threadId |-> store.fwd[k].threadId]

NotReboundAway(origin) ==
  <<toConversationKey(origin.accountId, origin.to), hookRet.childSessionKey>>
    \notin reboundFrom

CacheLookups == {"resolve", "getLatest"}

\* an id that is neither of the short-id form nor of the pair form msgId:cliMsgId
IsPlainId(id) == ~IsShortNumeric(id) /\ IndexOfChar(id, ":", 1) = -1

\* C23: after remember returns an entry, resolve under the same account by the
\* entry's short id, by its msgId and by its cliMsgId returns that entry's msgId,
\* cliMsgId and shortId. Stated for an entry whose timestamp is within the TTL and
\* whose msgId and cliMsgId are plain ids, the case the lookup order of resolve
\* leaves unambiguous.
C23_RememberThenResolve ==
  (/\ cacheRet.op = "remember"
   /\ cacheRet.entry # NoEntry
   /\ cacheRet.entry.timestamp >= now - CACHE_TTL_MS
   /\ cacheRet.entry.msgId # <<>> => IsPlainId(cacheRet.entry.msgId)
   /\ cacheRet.entry.cliMsgId # <<>> => IsPlainId(cacheRet.entry.cliMsgId))
  => \A x \in {cacheRet.entry.shortId, cacheRet.entry.msgId,
               cacheRet.entry.cliMsgId} \ {<<>>} :
       resolveOpenzaloMessageRef(cache, cacheRet.entry.accountId, x, now).ref
         = RefOf(cacheRet.entry)

\* C24: getLatest(accountId, threadId, isGroup) returns the entry of the most
\* recent remember call for exactly that account, thread and chat type, and null
\* when no entry was remembered for that triple.
C24_LatestOfTriple ==
  cacheRet.op = "getLatest" =>
    cacheRet.entry =
      (IF TripleOf(cacheRet.accountId, cacheRet.threadId, cacheRet.isGroup)
            \in DOMAIN latestCall
       THEN latestCall[TripleOf(cacheRet.accountId, cacheRet.threadId,
                                cacheRet.isGroup)]
       ELSE NoEntry)

\* the last n elements of seq, all of it when it is shorter
LastN(seq, n) ==
  IF Len(seq) <= n THEN seq ELSE SubSeq(seq, Len(seq) - n + 1, Len(seq))

\* the entries of the cache whose timestamp is within the TTL, in insertion order
Unexpired(c, at) == SelectSeq(c.byKey, LAMBDA e : e.timestamp >= at - CACHE_TTL_MS)

\* C25 as stated: after any sequence of calls the cache holds at most CACHE_MAX
\* entries.
C25_CacheCapped == Len(cache.byKey) <= CACHE_MAX

\* C25, amended: the cache holds at most CACHE_MAX entries after every resolve and
\* getLatest call and at most CACHE_MAX + 1 after a remember call; every call that
\* prunes keeps, of the unexpired entries, the CACHE_MAX most recently inserted in
\* their insertion order (a remembered entry is inserted anew at the end).
C25_CacheCappedAfterPrune ==
  /\ [](/\ Len(cache.byKey) <= CACHE_MAX + 1
        /\ cacheRet.op \in CacheLookups => Len(cache.byKey) <= CACHE_MAX)
  /\ [][/\ cacheRet'.op \in CacheLookups
             => cache'.byKey = LastN(Unexpired(cache, now), CACHE_MAX)
        /\ (cacheRet'.op = "remember" /\ cacheRet'.entry # NoEntry)
             => cache'.byKey =
                  Append(SelectSeq(LastN(Unexpired(cache, now), CACHE_MAX),
                                   LAMBDA e : CacheKeyOf(e) # CacheKeyOf(cacheRet'.entry)),
                         cacheRet'.entry)]_vars

C25_Witness ==
  /\ cacheRet.op \in CacheLookups
  /\ now = 1
  /\ cache.shortIdCounter = CACHE_MAX + 1
  /\ Len(cache.byKey) = CACHE_MAX
  /\ cache.byKey[1].shortId = <<"2">>

\* C26 as stated: what resolve and getLatest return under account a is the same
\* whatever was remembered under account b.
C26_SameWhateverOtherAccount ==
  (cacheRet.op \in CacheLookups /\ Trim(cacheRet.accountId) = AccountA)
    => cacheRet.ref = cacheRet.soloRef /\ cacheRet.entry = cacheRet.soloEntry

\* C26, amended: a lookup never returns an entry of another account: the entry
\* getLatest returns, and the entry whose ids and short id resolve returns, were
\* remembered under the account of the call; and while fewer entries than the cap
\* have ever been created, resolve of an id that is not of the short-id form
\* returns the same msgId and cliMsgId whatever was remembered under the other
\* account, and getLatest the same entry but for its short id.
C26_NoCrossAccountResult ==
  cacheRet.op \in CacheLookups =>
    /\ cacheRet.entry # NoEntry => cacheRet.entry.accountId = Trim(cacheRet.accountId)
    /\ cacheRet.ref.shortId # <<>> =>
         /\ \E e \in SeqRange(cache.byKey) :
              e.accountId = Trim(cacheRet.accountId) /\ RefOf(e) = cacheRet.ref
         /\ \A e \in SeqRange(cache.byKey) :
              e.shortId = cacheRet.ref.shortId => e.accountId = Trim(cacheRet.accountId)
    /\ (Trim(cacheRet.accountId) = AccountA /\ cache.shortIdCounter <= CACHE_MAX) =>
         /\ ~IsShortNumeric(Trim(cacheRet.rawId)) =>
              /\ cacheRet.ref.msgId = cacheRet.soloRef.msgId
              /\ cacheRet.ref.cliMsgId = cacheRet.soloRef.cliMsgId
         /\ [cacheRet.entry EXCEPT !.shortId = <<>>]
              = [cacheRet.soloEntry EXCEPT !.shortId = <<>>]

C26_Witness ==
  /\ cacheRet.op = "resolve"
  /\ Trim(cacheRet.accountId) = AccountA
  /\ cacheRet.ref.shortId # <<>>
  /\ \E e \in SeqRange(cache.byKey) :
       /\ e.accountId = AccountB
       /\ e.msgId = cacheRet.ref.msgId
       /\ e.cliMsgId # cacheRet.ref.cliMsgId

\* ------------------------------------------------ pending group history claims
\* expired: now - timestamp > ttlMs
IsExpired(entry, nowMs, ttlMs) ==
  entry.timestamp.def /\ nowMs - entry.timestamp.val > ttlMs

\* what the key held before the call, less what the call's pruning removes
PriorKept(ret, nowMs) ==
  IF EffectiveTtl(ret.ttlMs) <= 0 THEN <<>>
  ELSE SelectSeq(HistoryGet(ret.before, ret.historyKey),
                 LAMBDA e : ~IsExpired(e, nowMs, EffectiveTtl(ret.ttlMs)))

MinOf(a, b) == IF a <= b THEN a ELSE b

\* C27: append with limit > 0 stores and returns for the key at most limit
\* entries: the entry just appended and the most recently appended of those the
\* key held, in their original relative order, the oldest dropped first.
C27_AppendKeepsLatest ==
  (historyRet.op = "append" /\ historyRet.limit > 0) =>
    /\ Len(historyRet.entries) = MinOf(historyRet.limit,
                                       Len(PriorKept(historyRet, now)) + 1)
    /\ historyRet.entries[Len(historyRet.entries)] = historyRet.entry
    /\ \A i, j \in 1..Len(historyRet.entries) :
         i < j => historyRet.entries[i].id < historyRet.entries[j].id
    /\ \A r \in SeqRange(historyRet.entries) :
         r = historyRet.entry \/ r \in SeqRange(PriorKept(historyRet, now))
    /\ \A e \in SeqRange(PriorKept(historyRet, now)) :
         e \notin SeqRange(historyRet.entries)
           => \A r \in SeqRange(historyRet.entries) : e.id < r.id
    /\ HistoryGet(histories, historyRet.historyKey) = historyRet.entries

C27_Witness ==
  /\ historyRet.op = "append"
  /\ historyRet.limit = 2
  /\ Len(PriorKept(historyRet, now)) = 2
  /\ Len(historyRet.entries) = 2
  /\ historyRet.entries[1] = PriorKept(historyRet, now)[2]

\* C28: append and read first prune the expired entries of every key, not only
\* of the key of the call: no entry read returns is expired, no other key keeps
\* an expired entry, and a key whose entries have all expired is gone after an
\* append to, or a read of, a different key.
C28_PruneEveryKey ==
  historyRet.op \in {"append", "read"} =>
    /\ historyRet.op = "read" =>
         \A e \in SeqRange(historyRet.entries) :
           ~IsExpired(e, now, EffectiveTtl(historyRet.ttlMs))
    /\ \A i \in 1..Len(histories) :
         histories[i].key # historyRet.historyKey =>
           \A e \in SeqRange(histories[i].entries) :
             ~IsExpired(e, now, EffectiveTtl(historyRet.ttlMs))
    /\ \A i \in 1..Len(historyRet.before) :
         (/\ historyRet.before[i].key # historyRet.historyKey
          /\ \A e \in SeqRange(historyRet.before[i].entries) :
               IsExpired(e, now, EffectiveTtl(historyRet.ttlMs)))
           => ~HistoryHas(histories, historyRet.before[i].key)

C28_Witness ==
  /\ historyRet.op = "read"
  /\ EffectiveTtl(historyRet.ttlMs) > 0
  /\ \E i \in 1..Len(historyRet.before) :
       /\ historyRet.before[i].key # historyRet.historyKey
       /\ ~HistoryHas(histories, historyRet.before[i].key)
  /\ historyRet.entries # <<>>

\* the keys of the map before the call that the call's pruning leaves in place
KeysKept(ret, nowMs) ==
  IF EffectiveTtl(ret.ttlMs) <= 0 THEN <<>>
  ELSE HistoryKeys(
         SelectSeq(ret.before,
                   LAMBDA kv : \E e \in SeqRange(kv.entries) :
                                 ~IsExpired(e, nowMs, EffectiveTtl(ret.ttlMs))))

\* C29: the store never holds more keys than the cap; an append that exceeds it
\* evicts whole keys, oldest inserted first, although their entries have not
\* expired, and only as many as needed; the key appended to is the newest.
C29_KeyCapEvictsOldest ==
  /\ Len(histories) <= MAX_OPENZALO_PENDING_GROUP_HISTORY_KEYS
  /\ (historyRet.op = "append" /\ historyRet.limit > 0) =>
       /\ histories[Len(histories)].key = historyRet.historyKey
       /\ HistoryKeys(histories) =
            LastN(Append(SelectSeq(KeysKept(historyRet, now),
                                   LAMBDA k : k # historyRet.historyKey),
                         historyRet.historyKey),
                  MAX_OPENZALO_PENDING_GROUP_HISTORY_KEYS)

C29_Witness ==
  /\ historyRet.op = "append"
  /\ Len(histories) = MAX_OPENZALO_PENDING_GROUP_HISTORY_KEYS
  /\ \E i \in 1..Len(KeysKept(historyRet, now)) :
       /\ KeysKept(historyRet, now)[i] # historyRet.historyKey
       /\ ~HistoryHas(histories, KeysKept(historyRet, now)[i])

\* ------------------------------------------------------- readiness poll claims
\* C30: when the abort signal fires during the readiness poll,
\* waitForOpenzcaReady starts no further command, leaves no sleep timer or abort
\* listener pending and returns false, never throws; it throws only once the
\* deadline has passed without an abort, and after a false result
\* monitorOpenzaloProvider has returned without starting the listener.
C30_AbortStopsReadinessPoll ==
  /\ [](/\ abortSignal.duringPoll => ready.result \in {"none", "false"}
        /\ ready.result # "none" => ready.timer = 0 /\ ~ready.listener
        /\ ready.result = "threw" => ~abortSignal.aborted \/ ~abortSignal.duringPoll
        /\ ready.result = "threw" => now >= ready.deadlineAt
        /\ ready.result = "false" => abortSignal.aborted
        /\ ready.result = "false" =>
             monitor.pc = "returned" /\ ~monitor.listenerStarted)
  /\ [][abortSignal.aborted => ready'.commands = ready.commands]_vars
  /\ (abortSignal.duringPoll ~> ready.result = "false")

C30_Witness ==
  /\ ready.result = "false"
  /\ ready.timerCleared
  /\ ready.commands >= 2
  /\ monitor.pc = "returned"

\* ------------------------------------------ binding store: index agreement
\* the key set the reverse map holds for a session (none: no entry)
RevSet(st, s) == IF s \in st.linked THEN SeqRange(st.rev[s]) ELSE {}

StoreKeys(st) ==
  {KeyOf(st.fwd[i]) : i \in 1..Len(st.fwd)} \cup UNION {SeqRange(st.rev[s]) : s \in SessionKeys}

\* C32: after any sequence of bind, resolveByTarget, resolveOriginBySession,
\* unbindBySession, snapshot and replaceAll the two indexes agree: a conversation
\* key is in the reverse-index set of session s exactly when the forward index maps
\* it to a record whose childSessionKey is s, and no reverse-index set is empty
C32_IndexesAgree ==
  /\ store.linked \subseteq SessionKeys
  /\ \A s \in store.linked : store.rev[s] # <<>>
  /\ \A s \in SessionKeys : \A key \in StoreKeys(store) :
       key \in RevSet(store, s)
         <=> (MapHas(store.fwd, key) /\ MapGet(store.fwd, key).childSessionKey = s)

\* an unbind took the last binding of its session while another session stays bound
C32_Witness ==
  /\ storeRet.op = "unbindBySession"
  /\ storeRet.records # <<>>
  /\ storeRet.childSessionKey \notin store.linked
  /\ store.linked # {}

\* ------------------------------------------- binding store: snapshot restore
\* the records of a store that have not reached their expiresAt at a time
LiveRecords(st, at) ==
  LET Live(r) == r.expiresAt = 0 \/ r.expiresAt > at IN SelectSeq(st.fwd, Live)

\* C33: restoring a snapshot reproduces the store: replaceAll(snapshot(now), now)
\* returns the number of live bindings, and afterwards resolveByTarget and
\* resolveOriginBySession give for every live binding the same record as before
C33_SnapshotRestoreRoundTrip ==
  storeRet.op = "restore" =>
    LET live == LiveRecords(storeRet.before, storeRet.at)
    IN /\ storeRet.count = Len(live)
       /\ \A i \in 1..Len(live) :
            /\ resolveOpenzaloBoundSessionByTarget(store, live[i].accountId, live[i].to,
                                                   storeRet.at).records = <<live[i]>>
            /\ live[i] \in SeqRange(store.fwd)
       /\ \A a \in RawAccounts, to \in RawTargets :
            resolveOpenzaloBoundSessionByTarget(store, a, to, storeRet.at).records
              = resolveOpenzaloBoundSessionByTarget(storeRet.before, a, to, storeRet.at).records
       /\ \A k \in RawSessions, a \in RawAccounts :
            resolveOpenzaloBoundOriginBySession(store, k, a, storeRet.at).records
              = resolveOpenzaloBoundOriginBySession(storeRet.before, k, a, storeRet.at).records

\* a restart with two live bindings, one of them with a deadline still ahead,
\* and one expired binding that the snapshot left out
C33_Witness ==
  /\ storeRet.op = "restore"
  /\ storeRet.count = 2
  /\ Len(storeRet.before.fwd) = 3
  /\ \E r \in SeqRange(store.fwd) : r.expiresAt > storeRet.at /\ r.boundAt < storeRet.at

\* ------------------------------------------- message cache: staying resolvable
\* the entries that the pruning of a call made now keeps
KeptByPrune == SeqRange(LastN(Unexpired(cache, now), CACHE_MAX))

\* no cached entry of the account has this id as its msgId
NoMsgIdClash(accountId, id) ==
  \A e \in SeqRange(cache.byKey) : ~(e.accountId = accountId /\ e.msgId = id)

\* C34: a cached entry stays resolvable while it is neither expired nor evicted:
\* when it is the most recently remembered entry of its account with msgId m (or
\* cliMsgId c), resolve(account, m) (or resolve(account, c)) returns it, whatever
\* happened to other entries with the same msgId or cliMsgId. Stated for plain ids.
C34_StaysResolvable ==
  \A e \in KeptByPrune :
    /\ (/\ e.msgId # <<>>
        /\ IsPlainId(e.msgId)
        /\ IndexGet(latestById, <<"msgId", e.accountId, e.msgId>>) = e)
       => resolveOpenzaloMessageRef(cache, e.accountId, e.msgId, now).ref = RefOf(e)
    /\ (/\ e.cliMsgId # <<>>
        /\ IsPlainId(e.cliMsgId)
        /\ NoMsgIdClash(e.accountId, e.cliMsgId)
        /\ IndexGet(latestById, <<"cliMsgId", e.accountId, e.cliMsgId>>) = e)
       => resolveOpenzaloMessageRef(cache, e.accountId, e.cliMsgId, now).ref = RefOf(e)

\* ------------------------------------------- merged batch: identity fields
IdentityFields ==
  {"msgId", "cliMsgId", "quoteMsgId", "quoteCliMsgId", "quoteSender", "quoteText"}

\* the entries of the batch, in arrival order, that carry a value in the field
Carriers(batch, field) == {i \in 1..Len(batch) : batch[i][field] # <<>>}

\* C35: in a merged batch each of msgId, cliMsgId, quoteMsgId, quoteCliMsgId,
\* quoteSender and quoteText is taken from the first entry in arrival order that
\* has a non-empty value for that field, independently per field, and the raw
\* payload is taken from the last entry of the batch
C35_IdentityFromFirstRawFromLast ==
  fnOut.done =>
    /\ fnOut.message.raw = fnIn[Len(fnIn)].raw
    /\ \A field \in IdentityFields :
         /\ Carriers(fnIn, field) = {} => fnOut.message[field] = <<>>
         /\ \A i \in Carriers(fnIn, field) :
              (\A j \in Carriers(fnIn, field) : i <= j)
                => fnOut.message[field] = fnIn[i][field]

\* a batch of three whose msgId comes from the third entry, whose cliMsgId and
\* quoteMsgId come from the second, and whose raw payload is the third entry's
C35_Witness ==
  /\ fnOut.done
  /\ Len(fnIn) = 3
  /\ fnOut.message.msgId = fnIn[3].msgId /\ fnIn[3].msgId # <<>> /\ fnIn[1].msgId = <<>>
  /\ fnOut.message.cliMsgId = fnIn[2].cliMsgId /\ fnIn[2].cliMsgId # <<>>
  /\ fnIn[3].cliMsgId # <<>> /\ fnIn[3].cliMsgId # fnIn[2].cliMsgId
  /\ fnOut.message.raw = fnIn[3].raw /\ fnIn[1].raw # fnIn[3].raw

\* --------------------------------------------------- debounce key: scope
SameConversationOf(e1, e2) ==
  /\ e1.accountId = e2.accountId
  /\ e1.message.isGroup = e2.message.isGroup
  /\ Trim(e1.message.threadId) = Trim(e2.message.threadId)

SameScope(e1, e2) ==
  SameConversationOf(e1, e2) /\ Trim(e1.message.senderId) = Trim(e2.message.senderId)

HasColon(id) == \E i \in 1..Len(id) : id[i] = ":"

ColonFree(e) == ~HasColon(e.message.threadId) /\ ~HasColon(e.message.senderId)

ShortIdsUpTo(n) == {NumToString(k) : k \in 1..n}

\* a remember call that returned an entry
RememberStep == cacheOps' = cacheOps + 1 /\ cacheRet'.entry # NoEntry

\* the call gave the entry a short id never given before, or that of the entry old
FreshOrReused(old) ==
  IF old = {}
  THEN /\ cache'.shortIdCounter = cache.shortIdCounter + 1
       /\ cacheRet'.entry.shortId = NumToString(cache.shortIdCounter + 1)
       /\ cacheRet'.entry.shortId \notin ShortIdsUpTo(cache.shortIdCounter)
  ELSE /\ cache'.shortIdCounter = cache.shortIdCounter
       /\ \A e \in old : cacheRet'.entry.shortId = e.shortId

\* every short id in the cache was assigned, and no two entries share one
ShortIdsDistinct ==
  /\ \A i \in 1..Len(cache.byKey) :
       cache.byKey[i].shortId \in ShortIdsUpTo(cache.shortIdCounter)
  /\ \A i, j \in 1..Len(cache.byKey) :
       cache.byKey[i].shortId = cache.byKey[j].shortId => i = j

\* C37 as stated: remember assigns a new shortId, greater than every shortId
\* assigned before, only when no cached entry has the same (accountId, threadId,
\* msgId, cliMsgId) key, and otherwise reuses that entry's shortId; no two cached
\* entries share a shortId. A cached entry is one in the cache within the TTL.
C37_ShortIdFreshOnlyWithoutCached ==
  /\ []ShortIdsDistinct
  /\ [][RememberStep =>
          FreshOrReused({e \in SeqRange(Unexpired(cache, now)) :
                           CacheKeyOf(e) = CacheKeyOf(cacheRet'.entry)})]_vars

\* C37, amended: the entry that decides is one that the pruning at the start of
\* the call keeps: remember reuses the shortId of the entry with the same key that
\* is within the TTL and among the CACHE_MAX newest, and assigns a new shortId,
\* greater than every shortId assigned before, when there is none; no two cached
\* entries share a shortId.
C37_ShortIdFreshOrReusedAfterPrune ==
  /\ []ShortIdsDistinct
  /\ [][RememberStep =>
          FreshOrReused({e \in KeptByPrune :
                           CacheKeyOf(e) = CacheKeyOf(cacheRet'.entry)})]_vars

\* the first of two cached entries is remembered again and keeps its short id
C37_Witness ==
  /\ cacheRet.op = "remember"
  /\ cacheRet.entry.shortId = <<"1">>
  /\ cache.shortIdCounter = 2
  /\ Len(cache.byKey) = 2
  /\ cache.byKey[2] = cacheRet.entry

\* -------------------------------------------- pending history: limit <= 0
\* the map before the call less the entries expired under the call's ttl and the
\* keys left without entries (a ttl of 0 or less expires everything)
MapKept(ret, nowMs) ==
  IF EffectiveTtl(ret.ttlMs) <= 0 THEN <<>>
  ELSE SelectSeq(
         [i \in 1..Len(ret.before) |->
            [key |-> ret.before[i].key,
             entries |-> SelectSeq(ret.before[i].entries,
                                   LAMBDA e : ~IsExpired(e, nowMs, EffectiveTtl(ret.ttlMs)))]],
         LAMBDA kv : kv.entries # <<>>)

\* C38: append with limit <= 0 returns an empty list and records nothing: the entry
\* is not added, and no key, the key of the call included, loses anything but the
\* entries that have expired under the call's ttl
C38_LimitZeroRecordsNothing ==
  (historyRet.op = "append" /\ historyRet.limit <= 0) =>
    /\ historyRet.entries = <<>>
    /\ histories = MapKept(historyRet, now)
    /\ \A i \in 1..Len(histories) : historyRet.entry \notin SeqRange(histories[i].entries)
    /\ \A i \in 1..Len(historyRet.before) :
         (/\ EffectiveTtl(historyRet.ttlMs) > 0
          /\ \A e \in SeqRange(historyRet.before[i].entries) :
               ~IsExpired(e, now, EffectiveTtl(historyRet.ttlMs)))
         => historyRet.before[i] \in SeqRange(histories)

\* C38 as stated: append with limit <= 0 returns an empty list, does not add the
\* entry, and every other key keeps the entries it held that have not expired
\* (now - timestamp <= ttlMs)
C38_LimitZeroKeepsOtherKeys ==
  (historyRet.op = "append" /\ historyRet.limit <= 0) =>
    /\ historyRet.entries = <<>>
    /\ \A i \in 1..Len(histories) : historyRet.entry \notin SeqRange(histories[i].entries)
    /\ \A i \in 1..Len(historyRet.before) :
         historyRet.before[i].key # historyRet.historyKey =>
           \A e \in SeqRange(historyRet.before[i].entries) :
             ~IsExpired(e, now, EffectiveTtl(historyRet.ttlMs)) =>
               e \in SeqRange(HistoryGet(histories, historyRet.before[i].key))

\* an append with limit 0 to one of two keys that hold entries: it returns an
\* empty list and both keys keep what they held
C38_Witness ==
  /\ historyRet.op = "append"
  /\ historyRet.limit = 0
  /\ historyRet.entries = <<>>
  /\ Len(historyRet.before) = 2
  /\ HistoryGet(historyRet.before, historyRet.historyKey) # <<>>
  /\ histories = historyRet.before

\* ------------------------------------------- file lock: attempts and release
\* a call opens the lock file at most retries + 1 times, and the lock timeout
\* error comes only after that many opens
AttemptsBounded(p) ==
  /\ lockCall[p].opens <= LockRetries + 1
  /\ lockCall[p].end = "timeout" => lockCall[p].opens = LockRetries + 1

\* fn is run at most once in a call
CriticalSectionOnce(p) == lockCall[p].runs <= 1

\* the call of p is over
LockCallOver(p) == lockPc[p] = "idle" /\ lockCall[p].end # "none"

\* the lock file that p created is still at lockPath
OwnLockFileLeft(p) == lockFile.exists /\ lockFile.owner = p

\* C39: withStoreFileLock makes at most retries + 1 (9) attempts to create the
\* lock file and then fails with the lock timeout error; it runs the critical
\* section at most once per call; and when it has returned or thrown after
\* creating the lock file, that lock file has been removed
C39_BoundedOnceReleased ==
  \A p \in LockCallers :
    /\ AttemptsBounded(p)
    /\ CriticalSectionOnce(p)
    /\ (LockCallOver(p) /\ lockCall[p].made) => ~OwnLockFileLeft(p)

\* the parts of C39 that do not depend on the write of the lock content
C39_AttemptsBoundedAndOnce ==
  \A p \in LockCallers : AttemptsBounded(p) /\ CriticalSectionOnce(p)

\* the release after fn has run: returned or rethrown, the lock file is gone
C39_ReleasedAfterFn ==
  \A p \in LockCallers :
    (LockCallOver(p) /\ lockCall[p].runs = 1) => ~OwnLockFileLeft(p)

\* a call that gave up after nine opens, and one that threw out of fn
C39_TimeoutReached == \E p \in LockCallers : lockCall[p].end = "timeout"

C39_ThrewAfterFn ==
  \E p \in LockCallers :
    LockCallOver(p) /\ lockCall[p].end = "threw" /\ lockCall[p].runs = 1

\* ------------------------------------------------------ runOpenzca claims
\* the promise is resolved at most once
ResolvedOnce == Len(run.results) <= 1

\* SIGTERM on the timeout, SIGKILL only after it
EscalationOrder ==
  /\ run.signals \in {<<>>, <<"SIGTERM">>, <<"SIGTERM", "SIGKILL">>}
  /\ run.signals # <<>> => run.timedOut

\* a result produced once the timeout has fired is the timeout result
TimeoutFlagged ==
  \A i \in 1..Len(run.results) :
    run.results[i].timedOut => run.results[i].result = TimeoutResult

\* no timer is left pending once the result is settled
TimersCleared ==
  run.settled =>
    /\ ~run.timeoutTimer.pending
    /\ ~run.sigkillTimer.pending
    /\ ~run.forceResolveTimer.pending

\* some call of proc.kill has emitted the error event: the one result is the
\* error result although the timeout has fired
KillFailed ==
  /\ run.results # <<>>
  /\ run.results[1].timedOut
  /\ run.results[1].result = ErrorResult

\* C40: runOpenzca resolves its result once; on the timeout it sends SIGTERM,
\* then SIGKILL, then resolves by force; every result produced once the timeout
\* has fired has ok = false and exitCode 124; and all three timers are cleared
\* when the result is settled
C40_SettledOnceTimeoutFlagged ==
  /\ ResolvedOnce
  /\ EscalationOrder
  /\ TimeoutFlagged
  /\ TimersCleared

\* what of C40 holds on every run
C40_ResolvedOnceInOrder == ResolvedOnce /\ EscalationOrder

\* what of C40 holds unless proc.kill emits the error event
C40_FlaggedAndClearedUnlessKillFails ==
  ~KillFailed => (TimeoutFlagged /\ TimersCleared)

\* the three ways to a timeout result: close after SIGTERM, close after SIGKILL,
\* and the force-resolve timer
C40_ForceResolved ==
  /\ run.signals = <<"SIGTERM", "SIGKILL">>
  /\ ~run.closed
  /\ run.results = <<[result |-> TimeoutResult, timedOut |-> TRUE]>>

\* runOpenzca resolves in the end: a fair scheduler runs the timers that are due
\* and lets the clock advance, whatever the process does
SpecRunLive ==
  /\ SpecRun
  /\ WF_vars(RunTick)
  /\ WF_vars(TimeoutFires)
  /\ WF_vars(SigkillFires)
  /\ WF_vars(ForceResolveFires)
  /\ WF_vars(SpawnSucceeds \/ SpawnFails)

C40_ResolvesInTheEnd == (run.pc # "idle") ~> (Len(run.results) = 1)

\* ------------------------------------------------------ probe cache claims
\* the entries of the cache for a key that have not expired at a time
FreshFor(c, key, at) == {e \in SeqRange(c) : e.key = key /\ e.expiresAt > at}

\* the TTL of the call is 0: cacheTtlMs is given and is 0 or less
TtlIsZero(call) == call.cacheTtlMs.def /\ call.cacheTtlMs.val <= 0

\* the TTL the entry of a call is written with
TtlOf(call) == IF call.cacheTtlMs.def THEN call.cacheTtlMs.val ELSE PROBE_CACHE_TTL_MS

\* C31: probeOpenzaloAuth runs the auth-status command if and only if forceRefresh
\* is set, the cache TTL is 0, or the cache holds no unexpired entry (expiresAt >
\* now) for the key of the account; otherwise it returns the cached probe; and the
\* probe of a command, successful or failed, is in the cache under that key when
\* the call returns, unless the TTL is 0
C31_CommandIffNoFreshEntry ==
  probeCall.pc = "done" =>
    /\ probeCall.ran <=>
         \/ probeCall.forceRefresh
         \/ TtlIsZero(probeCall)
         \/ FreshFor(probeCall.before, probeCall.cacheKey, probeCall.startedAt) = {}
    /\ ~probeCall.ran =>
         /\ probeCall.probe \in
              {e.probe : e \in FreshFor(probeCall.before, probeCall.cacheKey,
                                        probeCall.startedAt)}
         /\ probeCache = probeCall.before
    /\ (probeCall.ran /\ ~TtlIsZero(probeCall)) =>
         [key |-> probeCall.cacheKey, probe |-> probeCall.probe,
          expiresAt |-> probeCall.settledAt + TtlOf(probeCall)] \in SeqRange(probeCache)
    /\ (probeCall.ran /\ TtlIsZero(probeCall)) =>
         \A e \in SeqRange(probeCache) : e \in SeqRange(probeCall.before)

\* a failed probe that was cached for account "a" is returned, without a command,
\* to a call for the account that differs in white space only
C31_Witness ==
  /\ probeCall.pc = "done"
  /\ ~probeCall.ran
  /\ ~probeCall.probe.ok
  /\ probeCall.probe.error = "not logged in"
  /\ probeCall.account.accountId = <<"a", " ">>
  /\ probeCache = probeCall.before

\* a forced refresh that ran the command although a fresh entry was cached, and
\* replaced a failed probe by a successful one
C31_ForcedRefresh ==
  /\ probeCall.pc = "done"
  /\ probeCall.forceRefresh
  /\ probeCall.ran
  /\ \E e \in FreshFor(probeCall.before, probeCall.cacheKey, probeCall.startedAt) :
       ~e.probe.ok
  /\ probeCall.probe.ok

====
